---- MODULE Spec2Model ----
(***************************************************************************)
(* The Order Lifecycle Coordinator (services/orders-service) and the       *)
(* Inventory Ledger (services/inventory-service) of the event-driven order *)
(* example.                                                                *)
(*                                                                         *)
(* Both services are single-threaded Node.js processes.  A handler runs    *)
(* without interruption up to its next `await`; the Coordinator's handlers *)
(* contain no `await`, so each is one atomic step.  The Ledger's handlers  *)
(* suspend at every `await service.send...()`, where the other             *)
(* subscription loop may run.                                              *)
(*                                                                         *)
(* A JSON payload is a record (a function from field names to values).     *)
(* A class instance is [cls, own]: `own` holds its own properties, the     *)
(* getters live on the prototype and are operators here.                   *)
(***************************************************************************)
EXTENDS Integers, Sequences, FiniteSets, TLC

\* Largest reading of the wall clock (Date.now(), new Date()).
MaxClock == 1

\* Most messages the outside publishers (order entry, payments) send.
MaxPublished == 3

\* Most order flows the user simulator starts.
MaxFlows == 2

VARIABLES
  clock,            \* wall clock, in milliseconds
  ordersNc,         \* OrdersService.nc: "null", "connected" or "closed"
  orders,           \* OrdersService.orders: orderId -> Order
  ordersOut,        \* messages the Coordinator's latest operation published
  ordersThrew,      \* whether the Coordinator's latest operation ended in an exception
  ordersLast,       \* the Coordinator's latest operation and its input
  firstCommitted,   \* per order: the event that was processed first while Pending
  terminalEvents,   \* per order: the subjects of the events published for it, in order
  inventoryNc,      \* InventoryService.nc: "null", "connected" or "closed"
  inventoryStore,   \* itemId -> available quantity
  reservations,     \* active reservations, in Map insertion order
  createdPc,        \* position of the order.created handler
  cancelledPc,      \* position of the order.cancelled handler
  inventoryOut,     \* messages the Ledger's latest step published
  inventoryThrew,   \* whether the Ledger's latest step ended in an exception
  ledgerLog,        \* the live reservationIds published so far in an inventory.released
  inventoryLast,    \* the Ledger's latest step and its input
  bus,              \* per subscription: the messages delivered and not yet taken
  published,        \* number of messages the outside publishers have sent
  cancelledHolding, \* orders a PaymentFailed cancelled while they held a reservation
  loops,            \* per subscription loop: "none", "running" or "ended"
  fraudNc,          \* FraudDetectionService.nc: "null", "connected" or "closed"
  fraudOut,         \* messages the fraud detection service's latest handler published
  fraudLast,        \* the fraud detection service's latest handler and its input
  simNc,            \* UserSimulator.nc: "null", "connected" or "closed"
  simRunning,       \* UserSimulator.running
  activeOrders,     \* UserSimulator.activeOrders: orderId -> OrderCreated
  simPc,            \* position of runSimulation and of the flow it awaits
  simOut,           \* messages the simulator's latest step published
  simFlows,         \* number of simulateOrderFlow calls so far
  simLog,           \* the order events the simulator published, in order
  simReturned       \* the orders whose simulateOrderFlow returned

coordinatorVars ==
  <<ordersNc, orders, ordersOut, ordersThrew, ordersLast, firstCommitted, terminalEvents>>
ledgerVars == <<inventoryNc, inventoryStore, reservations, createdPc, cancelledPc,
                inventoryOut, inventoryThrew, inventoryLast, ledgerLog>>
busVars == <<bus, published, cancelledHolding>>
fraudVars == <<fraudNc, fraudOut, fraudLast>>
simulatorVars ==
  <<simNc, simRunning, activeOrders, simPc, simOut, simFlows, simLog, simReturned>>
vars == <<clock, coordinatorVars, ledgerVars, busVars, loops, fraudVars, simulatorVars>>

undefined == "undefined"

\* obj[key] of JavaScript: the field's value, undefined when the object has none.
Prop(obj, key) == IF key \in DOMAIN obj THEN obj[key] ELSE undefined

\* Date.prototype.toISOString of the instant t.
ToISOString(t) == <<"ISO-8601", t>>

(***************************************************************************)
(* Channels and message shapes                                             *)
(***************************************************************************)
\* Subjects of the Coordinator.
CHANNELS ==
  [orderCancelled |-> "order.cancelled", orderCompleted |-> "order.completed",
   orderCreated |-> "order.created", paymentFailed |-> "payment.failed",
   shipmentDelivered |-> "shipment.delivered"]

\* Subjects of the Ledger.
INVENTORY_CHANNELS ==
  [INVENTORY_RESERVED |-> "inventory.reserved",
   INVENTORY_RELEASED |-> "inventory.released",
   INVENTORY_UPDATED |-> "inventory.updated",
   ORDER_CREATED |-> "order.created", ORDER_CANCELLED |-> "order.cancelled"]

\* new OrderCancelled(props): the constructor copies props into private fields.
OrderCancelled(props) ==
  [cls |-> "OrderCancelled",
   own |-> [_orderId |-> props.orderId, _reason |-> props.reason]]

OrderCancelled_orderId(d) == d.own._orderId
OrderCancelled_reason(d) == d.own._reason

\* new OrderCompleted(props).
OrderCompleted(props) ==
  [cls |-> "OrderCompleted",
   own |-> [_orderId |-> props.orderId, _completionTime |-> props.completionTime]]

OrderCompleted_orderId(d) == d.own._orderId
OrderCompleted_completionTime(d) == d.own._completionTime

\* JSONCodec().encode(d): JSON.stringify keeps the own enumerable properties
\* of an instance, neither its class nor its prototype getters.
jcEncode(d) == d.own

(***************************************************************************)
(* Inputs                                                                  *)
(***************************************************************************)
OrderIds == {"ORD-1", "ORD-2"}
UserIds == {"user-001", "user-002"}
FailureReasons == {"card declined", "Insufficient funds"}
CancelReasons == {"Customer requested cancellation"}

\* Catalog prices in cents (SAMPLE_ITEMS of the user simulator).
PriceOf ==
  [i \in {"ITEM-002", "ITEM-004", "ITEM-005"} |->
     CASE i = "ITEM-002" -> 1299 [] i = "ITEM-004" -> 2499 [] i = "ITEM-005" -> 5999]

\* A line of an order: ITEM-002 and ITEM-004 are seeded in the ledger, ITEM-005 is not.
Line(i, q) == [itemId |-> i, quantity |-> q, price |-> PriceOf[i]]

\* The item lists of the order.created messages: single lines, one item on two
\* lines, two items, and a stocked item followed by an unknown one.
ItemLists ==
  {<<Line("ITEM-002", 30)>>, <<Line("ITEM-004", 30)>>, <<Line("ITEM-005", 1)>>,
   <<Line("ITEM-002", 30), Line("ITEM-002", 30)>>,
   <<Line("ITEM-004", 30), Line("ITEM-002", 30)>>,
   <<Line("ITEM-002", 30), Line("ITEM-005", 1)>>}

RECURSIVE SumAmount(_)
SumAmount(items) ==
  IF items = <<>> THEN 0
  ELSE items[1].price * items[1].quantity + SumAmount(Tail(items))

\* order.created as the simulator builds it: totalAmount is the sum over the lines.
NewOrder(o, u, l) == [orderId |-> o, userId |-> u, totalAmount |-> SumAmount(l), items |-> l]

\* The order.created messages delivered to the Coordinator.
OrderCreatedMsgs ==
  {NewOrder(o, u, l) : o \in OrderIds, u \in UserIds,
                       l \in {<<Line("ITEM-002", 30)>>, <<Line("ITEM-005", 1)>>}}

PaymentFailedMsgs ==
  [paymentId : {"PAY-1"}, orderId : OrderIds, failureReason : FailureReasons]

ShipmentDeliveredMsgs ==
  [orderId : OrderIds, shipmentId : {"SHIP-1"}, deliveryTime : {ToISOString(0)}]

(***************************************************************************)
(* Order Lifecycle Coordinator                                             *)
(***************************************************************************)
StatusOf(id) == IF id \in DOMAIN orders THEN orders[id].status ELSE "none"

\* The subscription loops of the Coordinator and of the Ledger.
CoordinatorLoops == {"ordersCreated", "paymentFailed", "shipmentDelivered"}
LedgerLoops == {"inventoryCreated", "inventoryCancelled"}

\* A handler that returns early: it changes nothing and publishes nothing.
Return ==
  /\ ordersOut' = <<>>
  /\ ordersThrew' = FALSE
  /\ UNCHANGED orders

\* An operation that ends in an exception before it changed or published
\* anything.
Throw ==
  /\ ordersOut' = <<>>
  /\ ordersThrew' = TRUE
  /\ UNCHANGED orders

\* The for-await loop without a try/catch in its body: an exception ends it.
Caught_loopEnds(loop) == [loops EXCEPT ![loop] = "ended"]

\* The state of the loops after an exception in the body of `loop`: the body is
\* a try/catch that logs, so the loop goes on with the next message.
Caught(loop) == loops

\* The loops after one iteration of `loop` that threw or did not.
AfterIteration(loop, threw) == IF threw THEN Caught(loop) ELSE loops

\* Whether decoding the message, or the handler's first reads of it, throw:
\* bytes that are no JSON (SyntaxError in jc.decode), or an order.created
\* without items (TypeError in the handler: data.items.length in the
\* Coordinator, for...of data.items in the Ledger).
Throws(loop, msg) ==
  \/ "raw" \in DOMAIN msg
  \/ loop \in {"ordersCreated", "inventoryCreated"} /\ "items" \notin DOMAIN msg

\* OrdersService.connect followed by run's setupSubscriptions; connect has no
\* guard, so it also replaces a closed connection.
OrdersConnect ==
  /\ ordersNc \in {"null", "closed"}
  /\ ordersNc' = "connected"
  /\ loops' = [l \in DOMAIN loops |-> IF l \in CoordinatorLoops THEN "running" ELSE loops[l]]
  /\ UNCHANGED <<clock, fraudVars, simulatorVars, orders, ordersOut, ordersThrew, ordersLast, firstCommitted,
                 terminalEvents,
                 ledgerVars, busVars>>

\* sendOrderCancelled that deletes the record of the order it cancelled.
sendOrderCancelled_removesOrder(data) ==
  IF ordersNc # "connected" THEN Throw
  ELSE
    /\ ordersOut' = <<[subject |-> CHANNELS.orderCancelled, payload |-> jcEncode(data)]>>
    /\ ordersThrew' = FALSE
    /\ orders' = [o \in DOMAIN orders \ {OrderCancelled_orderId(data)} |-> orders[o]]

\* sendOrderCancelled that publishes and leaves the status as it was.
sendOrderCancelled_noStatus(data) ==
  IF ordersNc # "connected" THEN Throw
  ELSE
    /\ ordersOut' = <<[subject |-> CHANNELS.orderCancelled, payload |-> jcEncode(data)]>>
    /\ ordersThrew' = FALSE
    /\ UNCHANGED orders

\* sendOrderCancelled that marks the order cancelled before it publishes.
sendOrderCancelled_statusFirst(data) ==
  /\ orders' = IF OrderCancelled_orderId(data) \in DOMAIN orders
               THEN [orders EXCEPT ![OrderCancelled_orderId(data)].status = "cancelled"]
               ELSE orders
  /\ ordersOut' = IF ordersNc # "connected" THEN <<>>
                  ELSE <<[subject |-> CHANNELS.orderCancelled, payload |-> jcEncode(data)]>>
  /\ ordersThrew' = (ordersNc # "connected")

\* Publishes on order.cancelled, then marks the order cancelled.  Without a
\* connection its guard throws, on a closed connection nc.publish throws:
\* either way before the status is set.
sendOrderCancelled(data) ==
  IF ordersNc # "connected" THEN Throw
  ELSE
    /\ ordersOut' = <<[subject |-> CHANNELS.orderCancelled, payload |-> jcEncode(data)]>>
    /\ ordersThrew' = FALSE
    /\ orders' = IF OrderCancelled_orderId(data) \in DOMAIN orders
                 THEN [orders EXCEPT ![OrderCancelled_orderId(data)].status = "cancelled"]
                 ELSE orders

\* sendOrderCompleted that records the status 'delivered' instead of 'completed'.
sendOrderCompleted_statusDelivered(data) ==
  IF ordersNc # "connected" THEN Throw
  ELSE
    /\ ordersOut' = <<[subject |-> CHANNELS.orderCompleted, payload |-> jcEncode(data)]>>
    /\ ordersThrew' = FALSE
    /\ orders' = IF OrderCompleted_orderId(data) \in DOMAIN orders
                 THEN [orders EXCEPT ![OrderCompleted_orderId(data)].status = "delivered"]
                 ELSE orders

\* sendOrderCompleted that marks every order completed.
sendOrderCompleted_everyOrder(data) ==
  IF ordersNc # "connected" THEN Throw
  ELSE
    /\ ordersOut' = <<[subject |-> CHANNELS.orderCompleted, payload |-> jcEncode(data)]>>
    /\ ordersThrew' = FALSE
    /\ orders' = [o \in DOMAIN orders |-> [orders[o] EXCEPT !.status = "completed"]]

\* Publishes on order.completed, then marks the order completed.
sendOrderCompleted(data) ==
  IF ordersNc # "connected" THEN Throw
  ELSE
    /\ ordersOut' = <<[subject |-> CHANNELS.orderCompleted, payload |-> jcEncode(data)]>>
    /\ ordersThrew' = FALSE
    /\ orders' = IF OrderCompleted_orderId(data) \in DOMAIN orders
                 THEN [orders EXCEPT ![OrderCompleted_orderId(data)].status = "completed"]
                 ELSE orders

\* handleOrderCreated that stores the new order as confirmed.
handleOrderCreated_confirmed(data) ==
  IF data.orderId \in DOMAIN orders THEN Return
  ELSE
    /\ orders' = [id \in DOMAIN orders \cup {data.orderId} |->
                    IF id = data.orderId
                    THEN [orderId |-> data.orderId, userId |-> data.userId,
                          totalAmount |-> data.totalAmount, items |-> data.items,
                          status |-> "confirmed", createdAt |-> clock]
                    ELSE orders[id]]
    /\ ordersOut' = <<>>
    /\ ordersThrew' = FALSE

\* handleOrderCreated without its check for an existing order: the record is
\* written again from the event.
handleOrderCreated_overwrite(data) ==
  /\ orders' = [id \in DOMAIN orders \cup {data.orderId} |->
                  IF id = data.orderId
                  THEN [orderId |-> data.orderId, userId |-> data.userId,
                        totalAmount |-> data.totalAmount, items |-> data.items,
                        status |-> "pending", createdAt |-> clock]
                  ELSE orders[id]]
  /\ ordersOut' = <<>>
  /\ ordersThrew' = FALSE

handleOrderCreated(data) ==
  IF data.orderId \in DOMAIN orders THEN Return
  ELSE
    /\ orders' = [id \in DOMAIN orders \cup {data.orderId} |->
                    IF id = data.orderId
                    THEN [orderId |-> data.orderId, userId |-> data.userId,
                          totalAmount |-> data.totalAmount, items |-> data.items,
                          status |-> "pending", createdAt |-> clock]
                    ELSE orders[id]]
    /\ ordersOut' = <<>>
    /\ ordersThrew' = FALSE

\* handlePaymentFailed that passes failureReason on without the prefix.
handlePaymentFailed_rawReason(data) ==
  IF data.orderId \notin DOMAIN orders THEN Return
  ELSE IF orders[data.orderId].status = "cancelled" THEN Return
  ELSE sendOrderCancelled(
         OrderCancelled([orderId |-> data.orderId, reason |-> data.failureReason]))

handlePaymentFailed(data) ==
  IF data.orderId \notin DOMAIN orders THEN Return
  ELSE IF orders[data.orderId].status = "cancelled" THEN Return
  ELSE sendOrderCancelled(
         OrderCancelled([orderId |-> data.orderId,
                         reason |-> "Payment failed: " \o data.failureReason]))

\* handleShipmentDelivered that passes the event's deliveryTime on as the
\* completion time.
handleShipmentDelivered_deliveryTime(data) ==
  IF data.orderId \notin DOMAIN orders THEN Return
  ELSE IF orders[data.orderId].status = "cancelled" THEN Return
  ELSE IF orders[data.orderId].status = "completed" THEN Return
  ELSE sendOrderCompleted(
         OrderCompleted([orderId |-> data.orderId,
                         completionTime |-> data.deliveryTime]))

\* handleShipmentDelivered without its guard on completed orders.
handleShipmentDelivered_noCompletedGuard(data) ==
  IF data.orderId \notin DOMAIN orders THEN Return
  ELSE IF orders[data.orderId].status = "cancelled" THEN Return
  ELSE sendOrderCompleted(
         OrderCompleted([orderId |-> data.orderId,
                         completionTime |-> ToISOString(clock)]))

handleShipmentDelivered(data) ==
  IF data.orderId \notin DOMAIN orders THEN Return
  ELSE IF orders[data.orderId].status = "cancelled" THEN Return
  ELSE IF orders[data.orderId].status = "completed" THEN Return
  ELSE sendOrderCompleted(
         OrderCompleted([orderId |-> data.orderId,
                         completionTime |-> ToISOString(clock)]))

\* cancelOrder without its guard on completed orders.
cancelOrder_noCompletedGuard(orderId, reason) ==
  IF orderId \notin DOMAIN orders THEN Return
  ELSE IF orders[orderId].status = "cancelled" THEN Return
  ELSE sendOrderCancelled(OrderCancelled([orderId |-> orderId, reason |-> reason]))

\* cancelOrder that publishes a reason of its own instead of the caller's.
cancelOrder_ownReason(orderId, reason) ==
  IF orderId \notin DOMAIN orders THEN Return
  ELSE IF orders[orderId].status = "cancelled" THEN Return
  ELSE IF orders[orderId].status = "completed" THEN Return
  ELSE sendOrderCancelled(
         OrderCancelled([orderId |-> orderId, reason |-> "Cancelled by operator"]))

cancelOrder(orderId, reason) ==
  IF orderId \notin DOMAIN orders THEN Return
  ELSE IF orders[orderId].status = "cancelled" THEN Return
  ELSE IF orders[orderId].status = "completed" THEN Return
  ELSE sendOrderCancelled(OrderCancelled([orderId |-> orderId, reason |-> reason]))

\* History: the operation before this one was for the same order and threw.
ThrewFor(orderId) ==
  /\ ordersThrew
  /\ ordersLast.op \notin {"none", "error"}
  /\ ordersLast.data.orderId = orderId

\* History: the events published so far for each order, with what the running
\* operation on `orderId` has just published.
Published(orderId) ==
  [terminalEvents EXCEPT
     ![orderId] = @ \o [k \in 1..Len(ordersOut') |-> ordersOut'[k].subject]]

\* History: the operation that just ran, its input, the order's status and the
\* connection before it, whether the loop's previous message was dropped for
\* an exception, whether the operation before threw for the same order, and
\* the event that first found the order Pending with a
\* connection to publish on.
Observe(op, data) ==
  /\ ordersLast' = [op |-> op, data |-> data, pre |-> StatusOf(data.orderId),
                    nc |-> ordersNc,
                    afterError |-> ordersLast.op = "error" /\ ordersLast.handler = op,
                    retry |-> ThrewFor(data.orderId)]
  /\ firstCommitted' =
       IF /\ op \in {"handlePaymentFailed", "handleShipmentDelivered"}
          /\ StatusOf(data.orderId) = "pending"
          /\ ordersNc = "connected"
          /\ firstCommitted[data.orderId] = "none"
       THEN [firstCommitted EXCEPT ![data.orderId] = op]
       ELSE firstCommitted
  /\ terminalEvents' = Published(data.orderId)

\* The catch of a loop body whose decode or handler threw before it changed
\* anything: the message is logged and dropped.
CoordinatorCatch(handler) ==
  /\ Throw
  /\ ordersLast' = [op |-> "error", handler |-> handler]
  /\ UNCHANGED <<firstCommitted, terminalEvents>>

\* One iteration of the order.created subscription loop of setupSubscriptions,
\* on the message `data`.
CoordinatorOrderCreated(data) ==
  /\ ordersNc # "null"
  /\ loops.ordersCreated = "running"
  /\ IF Throws("ordersCreated", data)
     THEN CoordinatorCatch("handleOrderCreated")
     ELSE handleOrderCreated(data) /\ Observe("handleOrderCreated", data)
  /\ loops' = AfterIteration("ordersCreated", ordersThrew')

\* The order.created subscription yields some message.
ReceiveOrderCreated ==
  /\ \E data \in OrderCreatedMsgs : CoordinatorOrderCreated(data)
  /\ UNCHANGED <<clock, fraudVars, simulatorVars, ordersNc, ledgerVars, busVars>>

\* One iteration of the payment.failed subscription loop, on the message `data`.
CoordinatorPaymentFailed(data) ==
  /\ ordersNc # "null"
  /\ loops.paymentFailed = "running"
  /\ IF Throws("paymentFailed", data)
     THEN CoordinatorCatch("handlePaymentFailed")
     ELSE handlePaymentFailed(data) /\ Observe("handlePaymentFailed", data)
  /\ loops' = AfterIteration("paymentFailed", ordersThrew')

\* The payment.failed subscription yields some message.
ReceivePaymentFailed ==
  /\ \E data \in PaymentFailedMsgs : CoordinatorPaymentFailed(data)
  /\ UNCHANGED <<clock, fraudVars, simulatorVars, ordersNc, ledgerVars, busVars>>

\* One iteration of the shipment.delivered subscription loop, on the message
\* `data`.
CoordinatorShipmentDelivered(data) ==
  /\ ordersNc # "null"
  /\ loops.shipmentDelivered = "running"
  /\ IF Throws("shipmentDelivered", data)
     THEN CoordinatorCatch("handleShipmentDelivered")
     ELSE handleShipmentDelivered(data) /\ Observe("handleShipmentDelivered", data)
  /\ loops' = AfterIteration("shipmentDelivered", ordersThrew')

\* The shipment.delivered subscription yields some message.
ReceiveShipmentDelivered ==
  /\ \E data \in ShipmentDeliveredMsgs : CoordinatorShipmentDelivered(data)
  /\ UNCHANGED <<clock, fraudVars, simulatorVars, ordersNc, ledgerVars, busVars>>

\* What a call of cancelOrder hands back to its caller: the method is typed
\* void and each of its branches ends in a bare return or falls off the end.
cancelOrderReturn(orderId, reason) ==
  IF orderId \notin DOMAIN orders THEN undefined
  ELSE IF orders[orderId].status = "cancelled" THEN undefined
  ELSE IF orders[orderId].status = "completed" THEN undefined
  ELSE undefined

\* A call of the public cancelOrder.  History: also what the call returned.
CallCancelOrder ==
  /\ \E o \in OrderIds, r \in CancelReasons :
       /\ cancelOrder(o, r)
       /\ ordersLast' = [op |-> "cancelOrder", data |-> [orderId |-> o, reason |-> r],
                         pre |-> StatusOf(o), nc |-> ordersNc,
                         retry |-> ThrewFor(o),
                         result |-> cancelOrderReturn(o, r)]
       /\ terminalEvents' = Published(o)
       /\ UNCHANGED firstCommitted
  /\ UNCHANGED <<clock, fraudVars, simulatorVars, ordersNc, ledgerVars, busVars, loops>>

\* OrdersService.disconnect: the subscriptions are ended and the connection
\* drained and closed; nc keeps the closed connection.  Messages a loop had
\* already received are still handled.
OrdersDisconnect ==
  /\ ordersNc = "connected"
  /\ ordersNc' = "closed"
  /\ UNCHANGED <<clock, fraudVars, simulatorVars, orders, ordersOut, ordersThrew, ordersLast, firstCommitted,
                 terminalEvents,
                 ledgerVars, busVars, loops>>

\* `RES-${Date.now()}`
ReservationId(now) == <<"RES", now>>

\* The reservationIds that can still appear in a publish: the ids of the
\* active reservations and the id a reservation made at `now` would get.  An
\* id of an earlier clock reading that is in no reservation is never used again.
LiveIds(res, now) ==
  {ReservationId(now)} \cup {res[k].reservationId : k \in 1..Len(res)}

\* The wall clock advances.
Tick ==
  /\ clock < MaxClock
  /\ clock' = clock + 1
  /\ ledgerLog' = ledgerLog \cap LiveIds(reservations, clock')
  /\ UNCHANGED <<coordinatorVars, inventoryNc, inventoryStore, reservations, createdPc,
                 cancelledPc, inventoryOut, inventoryThrew, inventoryLast, busVars,
                 loops, fraudVars, simulatorVars>>

(***************************************************************************)
(* Inventory Ledger                                                        *)
(***************************************************************************)
\* The seeded catalog.
SeedStore ==
  [i \in {"ITEM-001", "ITEM-002", "ITEM-003", "ITEM-004"} |->
     CASE i = "ITEM-001" -> 100 [] i = "ITEM-002" -> 50
       [] i = "ITEM-003" -> 200 [] i = "ITEM-004" -> 75]

\* The order.created and order.cancelled messages delivered to the Ledger.
LedgerOrderCreatedMsgs == {NewOrder(o, "user-001", l) : o \in OrderIds, l \in ItemLists}

LedgerOrderCancelledMsgs == [orderId : OrderIds, reason : CancelReasons]

\* inventoryStore.get(itemId) || 0
StockOf(store, itemId) == IF itemId \in DOMAIN store THEN store[itemId] ELSE 0

\* inventoryStore.set(itemId, quantity)
StoreSet(store, itemId, quantity) ==
  [i \in DOMAIN store \cup {itemId} |-> IF i = itemId THEN quantity ELSE store[i]]

\* checkInventoryAvailability that checks the quantities seeded at start-up
\* instead of the current ones.
checkInventoryAvailability_seededStock(store, items) ==
  \A k \in 1..Len(items) : ~(StockOf(SeedStore, items[k].itemId) < items[k].quantity)

\* checkInventoryAvailability that only asks for some stock of each item.
checkInventoryAvailability_anyStock(store, items) ==
  \A k \in 1..Len(items) : ~(StockOf(store, items[k].itemId) <= 0)

\* checkInventoryAvailability that checks only the items the store knows.
checkInventoryAvailability_knownItemsOnly(store, items) ==
  \A k \in 1..Len(items) :
    items[k].itemId \in DOMAIN store
      => ~(StockOf(store, items[k].itemId) < items[k].quantity)

checkInventoryAvailability(store, items) ==
  \A k \in 1..Len(items) : ~(StockOf(store, items[k].itemId) < items[k].quantity)

\* reserveInventory that stops after its first line.
reserveInventory_firstLineOnly(store, items) ==
  IF items = <<>> THEN store
  ELSE StoreSet(store, items[1].itemId, StockOf(store, items[1].itemId) - items[1].quantity)

RECURSIVE reserveInventory(_, _)
reserveInventory(store, items) ==
  IF items = <<>> THEN store
  ELSE reserveInventory(
         StoreSet(store, items[1].itemId, StockOf(store, items[1].itemId) - items[1].quantity),
         Tail(items))

\* releaseInventory that stops after its first line.
releaseInventory_firstLineOnly(store, items) ==
  IF items = <<>> THEN store
  ELSE StoreSet(store, items[1].itemId, StockOf(store, items[1].itemId) + items[1].quantity)

RECURSIVE releaseInventory(_, _)
releaseInventory(store, items) ==
  IF items = <<>> THEN store
  ELSE releaseInventory(
         StoreSet(store, items[1].itemId, StockOf(store, items[1].itemId) + items[1].quantity),
         Tail(items))

\* reservations.set(id, value): a new key is appended, an existing key keeps
\* its place and gets the new value.
ReservationsSet(res, id, value) ==
  IF \E k \in 1..Len(res) : res[k].reservationId = id
  THEN [k \in 1..Len(res) |->
          IF res[k].reservationId = id
          THEN [reservationId |-> id, orderId |-> value.orderId, items |-> value.items]
          ELSE res[k]]
  ELSE Append(res, [reservationId |-> id, orderId |-> value.orderId, items |-> value.items])

\* The scan of reservations.entries() for the first reservation of the order;
\* 0 when there is none.
FindReservation(res, orderId) ==
  IF \E k \in 1..Len(res) : res[k].orderId = orderId
  THEN CHOOSE k \in 1..Len(res) :
         /\ res[k].orderId = orderId
         /\ \A j \in 1..(k - 1) : res[j].orderId # orderId
  ELSE 0

\* reservations.delete(id)
ReservationsDelete(res, id) == SelectSeq(res, LAMBDA r : r.reservationId # id)

\* The handler's position after its first publish: the inventory.updated loop
\* over items, or done when there are none.
UpdatesFrom(items, store) ==
  IF items = <<>> THEN [at |-> "idle"]
  ELSE [at |-> "updates", items |-> items, i |-> 1, snap |-> store]

\* History: the released reservationIds with those of `out` added, kept for
\* the live ids.
Logged(out) ==
  (ledgerLog \cup {out[k].payload.reservationId :
                     k \in {j \in 1..Len(out) : out[j].subject = "inventory.released"}})
    \cap LiveIds(reservations', clock)

\* sendInventoryReserved / sendInventoryReleased / sendInventoryUpdated:
\* nc.publish puts the event on the wire, or throws on a connection that has
\* been drained or closed.
inventorySend(subject, payload) ==
  /\ inventoryOut' = IF inventoryNc = "connected"
                     THEN <<[subject |-> subject, payload |-> payload]>>
                     ELSE <<>>
  /\ inventoryThrew' = (inventoryNc # "connected")
  /\ ledgerLog' = Logged(inventoryOut')

\* Where a handler stands after an awaited send: in `next` when the send
\* returned, out of the handler when it threw.
AfterSend(next) == IF inventoryNc = "connected" THEN next ELSE [at |-> "idle"]

\* A handler branch that only logs.
LedgerLogOnly ==
  /\ inventoryOut' = <<>>
  /\ inventoryThrew' = FALSE
  /\ UNCHANGED ledgerLog

\* InventoryService.connect followed by the two subscribeTo... calls of main.
InventoryConnect ==
  /\ inventoryNc = "null"
  /\ inventoryNc' = "connected"
  /\ loops' = [l \in DOMAIN loops |-> IF l \in LedgerLoops THEN "running" ELSE loops[l]]
  /\ UNCHANGED <<clock, fraudVars, simulatorVars, coordinatorVars, inventoryStore, reservations, createdPc,
                 cancelledPc, inventoryOut, inventoryThrew, inventoryLast, ledgerLog,
                 busVars>>

\* InventoryService.disconnect, or the server closing the connection: later
\* publishes throw, messages already delivered to a subscription are still
\* handed to its loop.
InventoryDisconnect ==
  /\ inventoryNc = "connected"
  /\ inventoryNc' = "closed"
  /\ UNCHANGED <<clock, fraudVars, simulatorVars, coordinatorVars, inventoryStore, reservations, createdPc,
                 cancelledPc, inventoryOut, inventoryThrew, inventoryLast, ledgerLog,
                 busVars,
                 loops>>

\* The order.created handler that reserves and publishes without storing the
\* reservation.
OrderCreatedHandler_noStore(data) ==
  IF checkInventoryAvailability(inventoryStore, Prop(data, "items"))
  THEN
    /\ inventoryStore' = reserveInventory(inventoryStore, Prop(data, "items"))
    /\ reservations' = reservations
    /\ inventorySend(INVENTORY_CHANNELS.INVENTORY_RESERVED,
                     [reservationId |-> ReservationId(clock),
                      orderId |-> Prop(data, "orderId"),
                      items |-> Prop(data, "items")])
    /\ createdPc' = AfterSend(UpdatesFrom(Prop(data, "items"), inventoryStore'))
  ELSE
    /\ LedgerLogOnly
    /\ UNCHANGED <<inventoryStore, reservations, createdPc>>

\* The order.created handler up to its first await: check, reserve, store the
\* reservation, publish inventory.reserved.
OrderCreatedHandler(data) ==
  IF checkInventoryAvailability(inventoryStore, Prop(data, "items"))
  THEN
    /\ inventoryStore' = reserveInventory(inventoryStore, Prop(data, "items"))
    /\ reservations' = ReservationsSet(reservations, ReservationId(clock),
                         [orderId |-> Prop(data, "orderId"), items |-> Prop(data, "items")])
    /\ inventorySend(INVENTORY_CHANNELS.INVENTORY_RESERVED,
                     [reservationId |-> ReservationId(clock),
                      orderId |-> Prop(data, "orderId"),
                      items |-> Prop(data, "items")])
    /\ createdPc' = AfterSend(UpdatesFrom(Prop(data, "items"), inventoryStore'))
  ELSE
    /\ LedgerLogOnly
    /\ UNCHANGED <<inventoryStore, reservations, createdPc>>

\* The order.cancelled handler that publishes inventory.released whether or
\* not it found a reservation.
OrderCancelledHandler_alwaysPublish(data) ==
  LET k == FindReservation(reservations, Prop(data, "orderId")) IN
  IF k # 0
  THEN
    /\ inventoryStore' = releaseInventory(inventoryStore, reservations[k].items)
    /\ reservations' = ReservationsDelete(reservations, reservations[k].reservationId)
    /\ inventorySend(INVENTORY_CHANNELS.INVENTORY_RELEASED,
                     [reservationId |-> reservations[k].reservationId,
                      orderId |-> Prop(data, "orderId"),
                      items |-> reservations[k].items])
    /\ cancelledPc' = AfterSend(UpdatesFrom(reservations[k].items, inventoryStore'))
  ELSE
    /\ UNCHANGED <<inventoryStore, reservations, cancelledPc>>
    /\ inventorySend(INVENTORY_CHANNELS.INVENTORY_RELEASED,
                     [reservationId |-> "null",
                      orderId |-> Prop(data, "orderId"),
                      items |-> <<>>])

\* The order.cancelled handler up to its first await: find the reservation,
\* release, delete, publish inventory.released.
OrderCancelledHandler(data) ==
  LET k == FindReservation(reservations, Prop(data, "orderId")) IN
  IF k # 0
  THEN
    /\ inventoryStore' = releaseInventory(inventoryStore, reservations[k].items)
    /\ reservations' = ReservationsDelete(reservations, reservations[k].reservationId)
    /\ inventorySend(INVENTORY_CHANNELS.INVENTORY_RELEASED,
                     [reservationId |-> reservations[k].reservationId,
                      orderId |-> Prop(data, "orderId"),
                      items |-> reservations[k].items])
    /\ cancelledPc' = AfterSend(UpdatesFrom(reservations[k].items, inventoryStore'))
  ELSE
    /\ LedgerLogOnly
    /\ UNCHANGED <<inventoryStore, reservations, cancelledPc>>

\* One pass of an inventory.updated loop: read the stock, publish, await.
SendUpdate(pc) ==
  /\ UNCHANGED <<inventoryStore, reservations>>
  /\ inventorySend(INVENTORY_CHANNELS.INVENTORY_UPDATED,
                   [itemId |-> pc.items[pc.i].itemId,
                    newQuantity |-> StockOf(inventoryStore, pc.items[pc.i].itemId)])

NextUpdate(pc) ==
  AfterSend(IF pc.i = Len(pc.items) THEN [at |-> "idle"] ELSE [pc EXCEPT !.i = pc.i + 1])

\* The catch of a ledger loop body whose decode or handler threw before it
\* changed anything: the message is logged and dropped.
LedgerCatch(handler) ==
  /\ inventoryOut' = <<>>
  /\ inventoryThrew' = TRUE
  /\ inventoryLast' = [op |-> "error", handler |-> handler]
  /\ UNCHANGED <<inventoryStore, reservations, createdPc, cancelledPc, ledgerLog>>

\* Some reservation belongs to the order.
HasReservation(res, orderId) == \E k \in 1..Len(res) : res[k].orderId = orderId

\* The order.created loop that takes its next message without waiting for the
\* handler of the previous one to finish.
LedgerOrderCreated_noAwait(data) ==
  /\ inventoryNc # "null"
  /\ loops.inventoryCreated = "running"
  /\ IF Throws("inventoryCreated", data)
     THEN LedgerCatch("orderCreated")
     ELSE /\ OrderCreatedHandler(data)
          /\ inventoryLast' =
               [op |-> "orderCreated", data |-> data,
                ok |-> checkInventoryAvailability(inventoryStore, Prop(data, "items")),
                pre |-> inventoryStore, id |-> ReservationId(clock),
                nc |-> inventoryNc,
                afterError |-> /\ inventoryLast.op = "error"
                               /\ inventoryLast.handler = "orderCreated",
                cancelledBefore |->
                  /\ inventoryLast.op = "orderCancelled"
                  /\ Prop(inventoryLast.data, "orderId") = Prop(data, "orderId")]
          /\ UNCHANGED cancelledPc
  /\ loops' = AfterIteration("inventoryCreated", inventoryThrew')

\* One iteration of the order.created loop on the message `data`, up to the
\* handler's first await.  History: the message, whether the check passed, the
\* stock before the step, the reservationId the step would use, the connection,
\* whether the loop's previous message was dropped for an exception, and
\* whether the step before processed the order.cancelled of the same order.
LedgerOrderCreated(data) ==
  /\ inventoryNc # "null"
  /\ loops.inventoryCreated = "running"
  /\ createdPc.at = "idle"
  /\ IF Throws("inventoryCreated", data)
     THEN LedgerCatch("orderCreated")
     ELSE /\ OrderCreatedHandler(data)
          /\ inventoryLast' =
               [op |-> "orderCreated", data |-> data,
                ok |-> checkInventoryAvailability(inventoryStore, Prop(data, "items")),
                pre |-> inventoryStore, id |-> ReservationId(clock),
                nc |-> inventoryNc,
                afterError |-> /\ inventoryLast.op = "error"
                               /\ inventoryLast.handler = "orderCreated",
                cancelledBefore |->
                  /\ inventoryLast.op = "orderCancelled"
                  /\ Prop(inventoryLast.data, "orderId") = Prop(data, "orderId")]
          /\ UNCHANGED cancelledPc
  /\ loops' = AfterIteration("inventoryCreated", inventoryThrew')

\* The order.created loop takes its next message.
CreatedStart ==
  /\ \E data \in LedgerOrderCreatedMsgs : LedgerOrderCreated(data)
  /\ UNCHANGED <<clock, fraudVars, simulatorVars, coordinatorVars, inventoryNc, busVars>>

\* The order.created handler resumes in its inventory.updated loop.
CreatedUpdate ==
  /\ createdPc.at = "updates"
  /\ SendUpdate(createdPc)
  /\ createdPc' = NextUpdate(createdPc)
  /\ inventoryLast' = [op |-> "createdUpdate"]
  /\ loops' = AfterIteration("inventoryCreated", inventoryThrew')
  /\ UNCHANGED <<clock, fraudVars, simulatorVars, coordinatorVars, inventoryNc, cancelledPc, busVars>>

\* One iteration of the order.cancelled loop on the message `data`, up to the
\* handler's first await.  History: the message, whether the order had a
\* reservation, the step before, and whether that step made the reservation
\* this one releases.
LedgerOrderCancelled(data) ==
  /\ inventoryNc # "null"
  /\ loops.inventoryCancelled = "running"
  /\ cancelledPc.at = "idle"
  /\ IF Throws("inventoryCancelled", data)
     THEN LedgerCatch("orderCancelled")
     ELSE
       /\ OrderCancelledHandler(data)
       /\ inventoryLast' =
            [op |-> "orderCancelled", data |-> data,
             ok |-> HasReservation(reservations, Prop(data, "orderId")),
             after |-> inventoryLast.op,
             nc |-> inventoryNc,
             afterError |-> /\ inventoryLast.op = "error"
                            /\ inventoryLast.handler = "orderCancelled",
             roundTrip |->
               /\ inventoryLast.op = "orderCreated"
               /\ inventoryLast.ok
               /\ \E k \in 1..Len(reservations) :
                    /\ reservations[k].orderId = Prop(data, "orderId")
                    /\ reservations[k].reservationId = inventoryLast.id
                    /\ \A j \in 1..(k - 1) :
                         reservations[j].orderId # reservations[k].orderId]
       /\ UNCHANGED createdPc
  /\ loops' = AfterIteration("inventoryCancelled", inventoryThrew')

\* The order.cancelled loop takes its next message.
CancelledStart ==
  /\ \E data \in LedgerOrderCancelledMsgs : LedgerOrderCancelled(data)
  /\ UNCHANGED <<clock, fraudVars, simulatorVars, coordinatorVars, inventoryNc, busVars>>

\* The order.cancelled handler resumes in its inventory.updated loop.
CancelledUpdate ==
  /\ cancelledPc.at = "updates"
  /\ SendUpdate(cancelledPc)
  /\ cancelledPc' = NextUpdate(cancelledPc)
  /\ inventoryLast' = [op |-> "cancelledUpdate"]
  /\ loops' = AfterIteration("inventoryCancelled", inventoryThrew')
  /\ UNCHANGED <<clock, fraudVars, simulatorVars, coordinatorVars, inventoryNc, createdPc, busVars>>

(***************************************************************************)
(* Queries of the Coordinator.  They read the orders map and contain no    *)
(* await, so they run between two steps of the handlers.                   *)
(***************************************************************************)
\* this.orders.get(orderId)
getOrder(orderId) == IF orderId \in DOMAIN orders THEN orders[orderId] ELSE undefined

\* this.orders.size
getOrderCount == Cardinality(DOMAIN orders)

\* Array.from(this.orders.values()).filter(o => o.status === status), as the
\* set of the records in the array (each record occurs once: one per key).
getOrdersByStatus(status) ==
  {getOrder(o) : o \in {id \in DOMAIN orders : orders[id].status = status}}

(***************************************************************************)
(* Specifications                                                          *)
(***************************************************************************)
Init ==
  /\ clock = 0
  /\ ordersNc = "null"
  /\ orders = <<>>
  /\ ordersOut = <<>>
  /\ ordersLast = [op |-> "none"]
  /\ firstCommitted = [o \in OrderIds |-> "none"]
  /\ terminalEvents = [o \in OrderIds |-> <<>>]
  /\ inventoryNc = "null"
  /\ inventoryStore = SeedStore
  /\ reservations = <<>>
  /\ createdPc = [at |-> "idle"]
  /\ cancelledPc = [at |-> "idle"]
  /\ inventoryOut = <<>>
  /\ inventoryLast = [op |-> "none"]
  /\ ordersThrew = FALSE
  /\ inventoryThrew = FALSE
  /\ ledgerLog = {}
  /\ loops = [l \in CoordinatorLoops \cup LedgerLoops |-> "none"]
  /\ bus = [ordersCreated |-> <<>>, paymentFailed |-> <<>>,
            inventoryCreated |-> <<>>, inventoryCancelled |-> <<>>]
  /\ published = 0
  /\ cancelledHolding = {}
  /\ fraudNc = "null"
  /\ fraudOut = <<>>
  /\ fraudLast = [op |-> "none"]
  /\ simNc = "null"
  /\ simRunning = TRUE
  /\ activeOrders = <<>>
  /\ simPc = [at |-> "none"]
  /\ simOut = <<>>
  /\ simFlows = 0
  /\ simLog = <<>>
  /\ simReturned = {}

NextCoordinator ==
  \/ OrdersConnect
  \/ OrdersDisconnect
  \/ ReceiveOrderCreated
  \/ ReceivePaymentFailed
  \/ ReceiveShipmentDelivered
  \/ CallCancelOrder
  \/ Tick

SpecCoordinator == Init /\ [][NextCoordinator]_vars

NextLedger ==
  \/ InventoryConnect
  \/ InventoryDisconnect
  \/ CreatedStart
  \/ CreatedUpdate
  \/ CancelledStart
  \/ CancelledUpdate
  \/ Tick

SpecLedger == Init /\ [][NextLedger]_vars

(***************************************************************************)
(* Combined deployment: both services on one NATS server.  A published     *)
(* message is queued for every subscription that exists at that moment;    *)
(* each subscription loop takes its messages in order.                     *)
(***************************************************************************)
\* A payload that is no JSON, and an order.created that lacks its items.
NotJson == [raw |-> "{not json"]
WithoutItems == [orderId |-> "ORD-1", userId |-> "user-001", totalAmount |-> 0]

\* What the outside publishers (order entry, payments, customers) send.
BusOrderCreatedMsgs ==
  {NewOrder(o, "user-001", <<Line("ITEM-002", 30)>>) : o \in OrderIds}
    \cup {NotJson, WithoutItems}

BusPaymentFailedMsgs ==
  [paymentId : {"PAY-1"}, orderId : OrderIds, failureReason : {"Insufficient funds"}]
    \cup {NotJson}

BusOrderCancelledMsgs == LedgerOrderCancelledMsgs \cup {NotJson}

\* A subscription that disconnect leaves in place: it goes on receiving.
Enqueue_keepsSubscription(queue, nc, msgs) ==
  IF nc # "null" THEN queue \o msgs ELSE queue

\* The queue of a subscription after `msgs` were published on its subject:
\* a service subscribes when it connects.
Enqueue(queue, nc, msgs) == IF nc = "connected" THEN queue \o msgs ELSE queue

\* The payloads among `out` published on `subject`.
RECURSIVE PayloadsOn(_, _)
PayloadsOn(out, subject) ==
  IF out = <<>> THEN <<>>
  ELSE (IF out[1].subject = subject THEN <<out[1].payload>> ELSE <<>>)
       \o PayloadsOn(Tail(out), subject)

\* An order.created is published: both services subscribe to it.
PublishOrderCreated ==
  /\ published < MaxPublished
  /\ published' = published + 1
  /\ \E data \in BusOrderCreatedMsgs :
       bus' = [bus EXCEPT
                 !.ordersCreated = Enqueue(@, ordersNc, <<data>>),
                 !.inventoryCreated = Enqueue(@, inventoryNc, <<data>>)]
  /\ UNCHANGED <<clock, fraudVars, simulatorVars, coordinatorVars, ledgerVars, cancelledHolding, loops>>

\* A payment.failed is published: the Coordinator subscribes to it.
PublishPaymentFailed ==
  /\ published < MaxPublished
  /\ published' = published + 1
  /\ \E data \in BusPaymentFailedMsgs :
       bus' = [bus EXCEPT !.paymentFailed = Enqueue(@, ordersNc, <<data>>)]
  /\ UNCHANGED <<clock, fraudVars, simulatorVars, coordinatorVars, ledgerVars, cancelledHolding, loops>>

\* A customer's cancellation is published on order.cancelled as a plain
\* {orderId, reason} object: the Ledger subscribes to it.
PublishOrderCancelled ==
  /\ published < MaxPublished
  /\ published' = published + 1
  /\ \E data \in BusOrderCancelledMsgs :
       bus' = [bus EXCEPT !.inventoryCancelled = Enqueue(@, inventoryNc, <<data>>)]
  /\ UNCHANGED <<clock, fraudVars, simulatorVars, coordinatorVars, ledgerVars, cancelledHolding, loops>>

\* The Coordinator's order.created loop takes its next message.
DeliverOrderCreatedToOrders ==
  /\ bus.ordersCreated # <<>>
  /\ CoordinatorOrderCreated(Head(bus.ordersCreated))
  /\ bus' = [bus EXCEPT !.ordersCreated = Tail(@)]
  /\ UNCHANGED <<clock, fraudVars, simulatorVars, ordersNc, ledgerVars, published, cancelledHolding>>

\* The Coordinator's payment.failed loop takes its next message; what the
\* handler publishes on order.cancelled is queued for the Ledger.
DeliverPaymentFailed ==
  /\ bus.paymentFailed # <<>>
  /\ CoordinatorPaymentFailed(Head(bus.paymentFailed))
  /\ bus' = [bus EXCEPT
               !.paymentFailed = Tail(@),
               !.inventoryCancelled =
                 Enqueue(@, inventoryNc, PayloadsOn(ordersOut', CHANNELS.orderCancelled))]
  /\ cancelledHolding' =
       LET o == Prop(Head(bus.paymentFailed), "orderId") IN
       IF StatusOf(o) = "pending" /\ HasReservation(reservations, o)
       THEN cancelledHolding \cup {o} ELSE cancelledHolding
  /\ UNCHANGED <<clock, fraudVars, simulatorVars, ordersNc, ledgerVars, published>>

\* The Ledger's order.created loop takes its next message.
DeliverOrderCreatedToLedger ==
  /\ bus.inventoryCreated # <<>>
  /\ LedgerOrderCreated(Head(bus.inventoryCreated))
  /\ bus' = [bus EXCEPT !.inventoryCreated = Tail(@)]
  /\ UNCHANGED <<clock, fraudVars, simulatorVars, coordinatorVars, inventoryNc, published, cancelledHolding>>

\* The Ledger's order.cancelled loop takes its next message.
DeliverOrderCancelledToLedger ==
  /\ bus.inventoryCancelled # <<>>
  /\ LedgerOrderCancelled(Head(bus.inventoryCancelled))
  /\ bus' = [bus EXCEPT !.inventoryCancelled = Tail(@)]
  /\ UNCHANGED <<clock, fraudVars, simulatorVars, coordinatorVars, inventoryNc, published, cancelledHolding>>

NextCombined ==
  \/ OrdersConnect
  \/ InventoryConnect
  \/ PublishOrderCreated
  \/ PublishPaymentFailed
  \/ PublishOrderCancelled
  \/ DeliverOrderCreatedToOrders
  \/ DeliverPaymentFailed
  \/ DeliverOrderCreatedToLedger
  \/ CreatedUpdate
  \/ DeliverOrderCancelledToLedger
  \/ CancelledUpdate
  \/ Tick

SpecCombined == Init /\ [][NextCombined]_vars

\* main() of either service connects once; its SIGINT handler disconnects and
\* exits the process, so a disconnected service is not connected again.
OrdersStart ==
  /\ ordersNc = "null"
  /\ OrdersConnect

\* The combined deployment with shutdown: either service may disconnect while
\* messages are queued for it and while a handler is at an await.  A shutdown
\* takes place within one reading of the clock.
NextShutdown ==
  \/ OrdersStart
  \/ OrdersDisconnect
  \/ InventoryConnect
  \/ InventoryDisconnect
  \/ PublishOrderCreated
  \/ PublishPaymentFailed
  \/ PublishOrderCancelled
  \/ DeliverOrderCreatedToOrders
  \/ DeliverPaymentFailed
  \/ DeliverOrderCreatedToLedger
  \/ CreatedUpdate
  \/ DeliverOrderCancelledToLedger
  \/ CancelledUpdate

SpecShutdown == Init /\ [][NextShutdown]_vars

(***************************************************************************)
(* The fraud detection service                                             *)
(***************************************************************************)
FRAUD_CHANNELS ==
  [FRAUD_ALERT |-> "fraud.alert",
   TRANSACTION_EVALUATED |-> "transaction.evaluated",
   TRANSACTION_REVIEW |-> "transaction.review"]

TransactionIds == {"TX-1", "TX-2"}

\* Risk scores in hundredths: 70 stands for 0.7 and 90 for 0.9.
RiskScores == {0, 70, 71, 90, 91, 100}

TransactionEvaluatedMsgs ==
  [transactionId : TransactionIds, evaluationTime : {ToISOString(0)},
   isFraudulent : BOOLEAN, riskScore : RiskScores]

TransactionReviewMsgs ==
  [transactionId : TransactionIds, reviewTime : {ToISOString(0)},
   reviewOutcome : {"Approved", "Declined", "Escalated"}, reviewerId : {"REV-1"}]

\* FraudDetectionService.connect followed by the two subscribeTo... calls of main.
FraudConnect ==
  /\ fraudNc = "null"
  /\ fraudNc' = "connected"
  /\ UNCHANGED <<clock, simulatorVars, coordinatorVars, ledgerVars, busVars, loops, fraudOut, fraudLast>>

\* FraudDetectionService.disconnect: later publishes throw, messages already
\* delivered to a subscription are still handed to its loop.
FraudDisconnect ==
  /\ fraudNc = "connected"
  /\ fraudNc' = "closed"
  /\ UNCHANGED <<clock, simulatorVars, coordinatorVars, ledgerVars, busVars, loops, fraudOut, fraudLast>>

\* sendFraudAlert: nc.publish throws on a closed connection.
sendFraudAlert(alert) ==
  fraudOut' = IF fraudNc # "connected" THEN <<>>
              ELSE <<[subject |-> FRAUD_CHANNELS.FRAUD_ALERT, payload |-> alert]>>

\* The transaction.evaluated handler that alerts on the isFraudulent flag alone.
onTransactionEvaluated_flagOnly(data) ==
  IF data.isFraudulent
  THEN sendFraudAlert(
         [alertId |-> <<"ALERT", clock>>,
          transactionId |-> data.transactionId,
          alertTime |-> ToISOString(clock),
          severity |-> IF data.riskScore > 90 THEN "CRITICAL"
                       ELSE IF data.riskScore > 70 THEN "HIGH" ELSE "MEDIUM",
          details |-> <<"Transaction flagged with risk score: ", data.riskScore>>])
  ELSE fraudOut' = <<>>

\* The handler main passes to subscribeToTransactionEvaluated.
onTransactionEvaluated(data) ==
  IF data.isFraudulent \/ data.riskScore > 70
  THEN sendFraudAlert(
         [alertId |-> <<"ALERT", clock>>,
          transactionId |-> data.transactionId,
          alertTime |-> ToISOString(clock),
          severity |-> IF data.riskScore > 90 THEN "CRITICAL"
                       ELSE IF data.riskScore > 70 THEN "HIGH" ELSE "MEDIUM",
          details |-> <<"Transaction flagged with risk score: ", data.riskScore>>])
  ELSE fraudOut' = <<>>

\* The handler main passes to subscribeToTransactionReview.
onTransactionReview(data) ==
  IF data.reviewOutcome = "Escalated"
  THEN sendFraudAlert(
         [alertId |-> <<"ALERT-ESC", clock>>,
          transactionId |-> data.transactionId,
          alertTime |-> ToISOString(clock),
          severity |-> "HIGH",
          details |-> <<"Transaction escalated by reviewer ", data.reviewerId>>])
  ELSE fraudOut' = <<>>

\* One iteration of the transaction.evaluated loop: decode, handler, catch.
ReceiveTransactionEvaluated ==
  /\ fraudNc # "null"
  /\ \E data \in TransactionEvaluatedMsgs \cup {NotJson} :
       /\ IF data = NotJson THEN fraudOut' = <<>> ELSE onTransactionEvaluated(data)
       /\ fraudLast' = [op |-> "transactionEvaluated", data |-> data, nc |-> fraudNc]
  /\ UNCHANGED <<clock, simulatorVars, coordinatorVars, ledgerVars, busVars, loops, fraudNc>>

\* One iteration of the transaction.review loop: decode, handler, catch.
ReceiveTransactionReview ==
  /\ fraudNc # "null"
  /\ \E data \in TransactionReviewMsgs \cup {NotJson} :
       /\ IF data = NotJson THEN fraudOut' = <<>> ELSE onTransactionReview(data)
       /\ fraudLast' = [op |-> "transactionReview", data |-> data, nc |-> fraudNc]
  /\ UNCHANGED <<clock, simulatorVars, coordinatorVars, ledgerVars, busVars, loops, fraudNc>>

NextFraud ==
  \/ FraudConnect
  \/ FraudDisconnect
  \/ ReceiveTransactionEvaluated
  \/ ReceiveTransactionReview
  \/ Tick

SpecFraud == Init /\ [][NextFraud]_vars

(***************************************************************************)
(* The user simulator                                                      *)
(***************************************************************************)
SIM_CHANNELS ==
  [ORDER_CREATED |-> "order.created",
   ORDER_CANCELLED |-> "order.cancelled",
   PAYMENT_PROCESSED |-> "payment.processed",
   PAYMENT_FAILED |-> "payment.failed",
   INVENTORY_RESERVED |-> "inventory.reserved",
   SHIPMENT_DELIVERED |-> "shipment.delivered"]

\* generateId: prefix, Date.now() and a random suffix.  Two flows are at least
\* one sleep of a second apart, so the n-th flow's ids differ from those of
\* every other flow; n stands for the time and the suffix.
generateId(prefix, n) == <<prefix, n>>

\* The item lists simulateOrderFlow draws (quantities 1..3).
SimItemLists == {<<Line("ITEM-005", 1)>>, <<Line("ITEM-002", 3), Line("ITEM-004", 1)>>}

\* items.map(i => ({itemId, quantity}))
RECURSIVE WithoutPrice(_)
WithoutPrice(items) ==
  IF items = <<>> THEN <<>>
  ELSE <<[itemId |-> items[1].itemId, quantity |-> items[1].quantity]>>
       \o WithoutPrice(Tail(items))

\* The Map without the key.
MapDelete(map, key) == [k \in DOMAIN map \ {key} |-> map[k]]

\* The Map with the key set.
MapSet(map, key, value) ==
  [k \in DOMAIN map \cup {key} |-> IF k = key THEN value ELSE map[k]]

\* UserSimulator.connect followed by main's runSimulation.
SimConnect ==
  /\ simNc = "null"
  /\ simNc' = "connected"
  /\ simPc' = [at |-> "loop"]
  /\ UNCHANGED <<clock, coordinatorVars, ledgerVars, busVars, loops, fraudVars,
                 simRunning, activeOrders, simOut, simFlows, simLog, simReturned>>

\* UserSimulator.disconnect.
SimDisconnect ==
  /\ simNc = "connected"
  /\ simRunning' = FALSE
  /\ simNc' = "closed"
  /\ UNCHANGED <<clock, coordinatorVars, ledgerVars, busVars, loops, fraudVars,
                 activeOrders, simPc, simOut, simFlows, simLog, simReturned>>

\* The connection is closed from outside: nc.publish throws from then on.
SimConnectionClosed ==
  /\ simNc = "connected"
  /\ simNc' = "closed"
  /\ UNCHANGED <<clock, coordinatorVars, ledgerVars, busVars, loops, fraudVars,
                 simRunning, activeOrders, simPc, simOut, simFlows, simLog, simReturned>>

\* The publish threw: the exception leaves the flow and runSimulation catches it.
SimThrow ==
  /\ simOut' = <<>>
  /\ simPc' = [at |-> "caught"]
  /\ UNCHANGED <<activeOrders, simLog, simReturned>>

\* UserSimulator.publish on an open connection.
publish(channel, data) == simOut' = <<[subject |-> channel, payload |-> data]>>

\* The log with one more order event.
SimLogged(subject, orderId, by) ==
  Append(simLog, [subject |-> subject, orderId |-> orderId, by |-> by,
                  active |-> orderId \in DOMAIN activeOrders])

\* simulateOrderFlow up to its first sleep: the order is published and kept.
SimulateOrderFlow ==
  /\ simPc.at = "loop"
  /\ simRunning
  /\ simFlows < MaxFlows
  /\ simFlows' = simFlows + 1
  /\ \E u \in UserIds, l \in SimItemLists :
       LET order == NewOrder(generateId("ORD", simFlows + 1), u, l) IN
       IF simNc # "connected" THEN SimThrow
       ELSE /\ publish(SIM_CHANNELS.ORDER_CREATED, order)
            /\ activeOrders' = MapSet(activeOrders, order.orderId, order)
            /\ simLog' = SimLogged(SIM_CHANNELS.ORDER_CREATED, order.orderId, "flow")
            /\ simPc' = [at |-> "created", order |-> order, n |-> simFlows + 1]
            /\ UNCHANGED simReturned
  /\ UNCHANGED <<clock, coordinatorVars, ledgerVars, busVars, loops, fraudVars,
                 simNc, simRunning>>

\* Step 2 of the flow: inventory.reserved.
FlowInventoryReserved ==
  /\ simPc.at = "created"
  /\ IF simNc # "connected" THEN SimThrow
     ELSE /\ publish(SIM_CHANNELS.INVENTORY_RESERVED,
                     [reservationId |-> generateId("RES", simPc.n),
                      orderId |-> simPc.order.orderId,
                      items |-> WithoutPrice(simPc.order.items)])
          /\ simPc' = [simPc EXCEPT !.at = "reserved"]
          /\ UNCHANGED <<activeOrders, simLog, simReturned>>
  /\ UNCHANGED <<clock, coordinatorVars, ledgerVars, busVars, loops, fraudVars,
                 simNc, simRunning, simFlows>>

\* Step 3 of the flow: the payment fails or is processed.
FlowPayment ==
  /\ simPc.at = "reserved"
  /\ \E paymentFails \in BOOLEAN :
       IF simNc # "connected" THEN SimThrow
       ELSE IF paymentFails
       THEN /\ publish(SIM_CHANNELS.PAYMENT_FAILED,
                       [paymentId |-> generateId("PAY", simPc.n),
                        orderId |-> simPc.order.orderId,
                        failureReason |-> "Insufficient funds"])
            /\ simPc' = [simPc EXCEPT !.at = "paymentFailed"]
            /\ UNCHANGED <<activeOrders, simLog, simReturned>>
       ELSE /\ publish(SIM_CHANNELS.PAYMENT_PROCESSED,
                       [orderId |-> simPc.order.orderId,
                        paymentId |-> generateId("PAY", simPc.n),
                        status |-> "completed"])
            /\ simPc' = [simPc EXCEPT !.at = "paymentProcessed"]
            /\ UNCHANGED <<activeOrders, simLog, simReturned>>
  /\ UNCHANGED <<clock, coordinatorVars, ledgerVars, busVars, loops, fraudVars,
                 simNc, simRunning, simFlows>>

\* The end of the flow after a failed payment: order.cancelled, then the
\* order leaves activeOrders and the flow returns.
FlowCancelled ==
  /\ simPc.at = "paymentFailed"
  /\ IF simNc # "connected" THEN SimThrow
     ELSE /\ publish(SIM_CHANNELS.ORDER_CANCELLED,
                     [orderId |-> simPc.order.orderId, reason |-> "Payment failed"])
          /\ simLog' = SimLogged(SIM_CHANNELS.ORDER_CANCELLED, simPc.order.orderId, "flow")
          /\ activeOrders' = MapDelete(activeOrders, simPc.order.orderId)
          /\ simReturned' = simReturned \cup {simPc.order.orderId}
          /\ simPc' = [at |-> "wait"]
  /\ UNCHANGED <<clock, coordinatorVars, ledgerVars, busVars, loops, fraudVars,
                 simNc, simRunning, simFlows>>

\* The end of the flow that publishes shipment.delivered and keeps the order
\* in activeOrders.
deliverShipment_keepsActive ==
  /\ publish(SIM_CHANNELS.SHIPMENT_DELIVERED,
             [orderId |-> simPc.order.orderId,
              shipmentId |-> generateId("SHIP", simPc.n),
              deliveryTime |-> ToISOString(clock)])
  /\ simLog' = SimLogged(SIM_CHANNELS.SHIPMENT_DELIVERED, simPc.order.orderId, "flow")
  /\ activeOrders' = activeOrders
  /\ simReturned' = simReturned \cup {simPc.order.orderId}
  /\ simPc' = [at |-> "wait"]

\* Step 4 of the flow on an open connection: shipment.delivered, then the
\* order leaves activeOrders and the flow returns.
deliverShipment ==
  /\ publish(SIM_CHANNELS.SHIPMENT_DELIVERED,
             [orderId |-> simPc.order.orderId,
              shipmentId |-> generateId("SHIP", simPc.n),
              deliveryTime |-> ToISOString(clock)])
  /\ simLog' = SimLogged(SIM_CHANNELS.SHIPMENT_DELIVERED, simPc.order.orderId, "flow")
  /\ activeOrders' = MapDelete(activeOrders, simPc.order.orderId)
  /\ simReturned' = simReturned \cup {simPc.order.orderId}
  /\ simPc' = [at |-> "wait"]

FlowDelivered ==
  /\ simPc.at = "paymentProcessed"
  /\ IF simNc # "connected" THEN SimThrow ELSE deliverShipment
  /\ UNCHANGED <<clock, coordinatorVars, ledgerVars, busVars, loops, fraudVars,
                 simNc, simRunning, simFlows>>

\* simulateOrderCancellation: nothing when no order is active, else one of
\* the active orders is cancelled and leaves activeOrders.
SimulateOrderCancellation ==
  /\ simPc.at = "loop"
  /\ simRunning
  /\ IF DOMAIN activeOrders = {}
     THEN /\ simOut' = <<>>
          /\ simPc' = [at |-> "wait", after |-> "simulateOrderCancellation"]
          /\ UNCHANGED <<activeOrders, simLog, simReturned>>
     ELSE \E orderId \in DOMAIN activeOrders, reason \in CancelReasons :
            IF simNc # "connected" THEN SimThrow
            ELSE /\ publish(SIM_CHANNELS.ORDER_CANCELLED,
                            [orderId |-> orderId, reason |-> reason])
                 /\ simLog' = SimLogged(SIM_CHANNELS.ORDER_CANCELLED, orderId,
                                        "simulateOrderCancellation")
                 /\ activeOrders' = MapDelete(activeOrders, orderId)
                 /\ simPc' = [at |-> "wait", after |-> "simulateOrderCancellation"]
                 /\ UNCHANGED simReturned
  /\ UNCHANGED <<clock, coordinatorVars, ledgerVars, busVars, loops, fraudVars,
                 simNc, simRunning, simFlows>>

\* The sleep that ends an iteration of runSimulation, then `while (this.running)`.
SimSleep ==
  /\ simPc.at \in {"wait", "caught"}
  /\ simPc' = [at |-> IF simRunning THEN "loop" ELSE "stopped"]
  /\ UNCHANGED <<clock, coordinatorVars, ledgerVars, busVars, loops, fraudVars,
                 simNc, simRunning, activeOrders, simOut, simFlows, simLog, simReturned>>

NextSimulator ==
  \/ SimConnect
  \/ SimDisconnect
  \/ SimConnectionClosed
  \/ SimulateOrderFlow
  \/ FlowInventoryReserved
  \/ FlowPayment
  \/ FlowCancelled
  \/ FlowDelivered
  \/ SimulateOrderCancellation
  \/ SimSleep
  \/ Tick

SpecSimulator == Init /\ [][NextSimulator]_vars

(***************************************************************************)
(* Properties of the Coordinator (checked under SpecCoordinator)           *)
(***************************************************************************)
Terminal == {"cancelled", "completed"}

\* C1: terminal monotonicity.  Once an order's status is Cancelled or
\* Completed, no step changes it or removes the order.
C1_TerminalMonotonicity ==
  [][\A o \in DOMAIN orders :
       orders[o].status \in Terminal =>
         o \in DOMAIN orders' /\ orders'[o].status = orders[o].status]_vars

\* C6: first-committed-wins.  The event (PaymentFailed or ShipmentDelivered)
\* that was processed first on a Pending order fixes its terminal status, and
\* an event processed on an order that is already terminal publishes nothing.
C6_FirstCommittedWins ==
  /\ \A o \in OrderIds :
       /\ firstCommitted[o] = "handlePaymentFailed" => StatusOf(o) = "cancelled"
       /\ firstCommitted[o] = "handleShipmentDelivered" => StatusOf(o) = "completed"
  /\ ( /\ ordersLast.op \in {"handlePaymentFailed", "handleShipmentDelivered"}
       /\ ordersLast.pre \in Terminal ) => ordersOut = <<>>

\* C7: a PaymentFailed event for an order that is unknown, Cancelled or
\* Completed changes no order and publishes nothing.
C7_PaymentFailedNoOp ==
  [][( /\ ordersLast'.op = "handlePaymentFailed"
       /\ ordersLast'.pre \in {"none", "cancelled", "completed"} )
       => orders' = orders /\ ordersOut' = <<>>]_vars

\* C8: a PaymentFailed event for a Pending order, processed on an open
\* connection (the publish does not throw), leaves it Cancelled and
\* publishes exactly one message, on order.cancelled: the encoding of an
\* OrderCancelled for that order whose reason is "Payment failed: " followed
\* by the event's failureReason.
C8_PaymentFailedCancels ==
  ( /\ ordersLast.op = "handlePaymentFailed"
    /\ ordersLast.pre = "pending"
    /\ ordersLast.nc = "connected" ) =>
      /\ StatusOf(ordersLast.data.orderId) = "cancelled"
      /\ Len(ordersOut) = 1
      /\ ordersOut[1].subject = "order.cancelled"
      /\ ordersOut[1].payload =
           jcEncode(OrderCancelled(
             [orderId |-> ordersLast.data.orderId,
              reason |-> "Payment failed: " \o ordersLast.data.failureReason]))

C8_Witness ==
  /\ ordersLast.op = "handlePaymentFailed"
  /\ ordersLast.pre = "pending"
  /\ ordersLast.data.failureReason = "card declined"
  /\ Len(ordersOut) = 1

\* C9: a ShipmentDelivered event for a Pending order, processed on an open
\* connection (the publish does not throw), leaves it Completed and
\* publishes exactly one message, on order.completed: the encoding of an
\* OrderCompleted for that order.
C9_ShipmentDeliveredCompletes ==
  ( /\ ordersLast.op = "handleShipmentDelivered"
    /\ ordersLast.pre = "pending"
    /\ ordersLast.nc = "connected" ) =>
      /\ StatusOf(ordersLast.data.orderId) = "completed"
      /\ Len(ordersOut) = 1
      /\ ordersOut[1].subject = "order.completed"
      /\ \E t \in 0..MaxClock :
           ordersOut[1].payload =
             jcEncode(OrderCompleted([orderId |-> ordersLast.data.orderId,
                                      completionTime |-> ToISOString(t)]))

C9_Witness ==
  /\ ordersLast.op = "handleShipmentDelivered"
  /\ ordersLast.pre = "pending"
  /\ Len(ordersOut) = 1

\* C10: a ShipmentDelivered event for an order that is unknown, Cancelled or
\* Completed changes no order and publishes nothing.
C10_ShipmentDeliveredNoOp ==
  [][( /\ ordersLast'.op = "handleShipmentDelivered"
       /\ ordersLast'.pre \in {"none", "cancelled", "completed"} )
       => orders' = orders /\ ordersOut' = <<>>]_vars

C10_Witness ==
  /\ ordersLast.op = "handleShipmentDelivered"
  /\ ordersLast.pre = "completed"
  /\ \E o \in DOMAIN orders : orders[o].status = "pending"

\* C11: order creation is idempotent.  An OrderCreated event for an orderId
\* that already has a record leaves every record as it was (status, userId,
\* totalAmount, items), adds none and publishes nothing.
C11_CreationIdempotent ==
  [][( /\ ordersLast'.op = "handleOrderCreated"
       /\ ordersLast'.pre # "none" )
       => orders' = orders /\ ordersOut' = <<>>]_vars

\* A repeated OrderCreated, with another userId and other items, has been
\* processed for an order that is Completed.
C11_Witness ==
  /\ ordersLast.op = "handleOrderCreated"
  /\ ordersLast.pre = "completed"
  /\ orders[ordersLast.data.orderId].status = "completed"
  /\ orders[ordersLast.data.orderId].userId # ordersLast.data.userId
  /\ orders[ordersLast.data.orderId].items # ordersLast.data.items

\* C18: cancelOrder reports its refusals.  A call for an orderId with no
\* record returns UnknownOrder, a call for a Cancelled or Completed order
\* returns AlreadyTerminal, and a call that cancels returns neither.
C18_CancelOrderReportsErrors ==
  ordersLast.op = "cancelOrder" =>
    /\ ordersLast.pre = "none" => ordersLast.result = "UnknownOrder"
    /\ ordersLast.pre \in Terminal => ordersLast.result = "AlreadyTerminal"
    /\ ordersLast.pre = "pending"
         => ordersLast.result \notin {"UnknownOrder", "AlreadyTerminal"}

\* C19: a call of cancelOrder for a Pending order on an open connection (the
\* publish does not throw) leaves it Cancelled and
\* publishes exactly one message, on order.cancelled: the encoding of an
\* OrderCancelled for that order with the caller's reason as given.
C19_CancelOrderCancels ==
  ( /\ ordersLast.op = "cancelOrder"
    /\ ordersLast.pre = "pending"
    /\ ordersLast.nc = "connected" ) =>
      /\ StatusOf(ordersLast.data.orderId) = "cancelled"
      /\ Len(ordersOut) = 1
      /\ ordersOut[1].subject = "order.cancelled"
      /\ ordersOut[1].payload =
           jcEncode(OrderCancelled([orderId |-> ordersLast.data.orderId,
                                    reason |-> ordersLast.data.reason]))

\* cancelOrder has cancelled a Pending order while the other order is Pending.
C19_Witness ==
  /\ ordersLast.op = "cancelOrder"
  /\ ordersLast.pre = "pending"
  /\ StatusOf(ordersLast.data.orderId) = "cancelled"
  /\ Len(ordersOut) = 1
  /\ \E o \in DOMAIN orders : orders[o].status = "pending"

\* C20: wire field names.  Every order.cancelled message the Coordinator
\* publishes has exactly the fields orderId and reason, every order.completed
\* message exactly orderId and completionTime, and reading orderId from the
\* payload gives the id of the order the operation was about.
C20_WireFieldNames ==
  \A k \in 1..Len(ordersOut) :
    /\ ordersOut[k].subject = "order.cancelled"
         => DOMAIN ordersOut[k].payload = {"orderId", "reason"}
    /\ ordersOut[k].subject = "order.completed"
         => DOMAIN ordersOut[k].payload = {"orderId", "completionTime"}
    /\ Prop(ordersOut[k].payload, "orderId") = ordersLast.data.orderId

\* C28: at most one terminal event per order.  Over its whole lifetime the
\* Coordinator has published for an order at most one event: never an
\* order.cancelled and an order.completed, nor one of them twice.
C28_AtMostOneTerminalEvent ==
  \A o \in OrderIds : Len(terminalEvents[o]) <= 1

\* C29: a call of cancelOrder for an order that is unknown, Cancelled or
\* Completed changes no order record and publishes nothing.
C29_CancelOrderNoOp ==
  [][( /\ ordersLast'.op = "cancelOrder"
       /\ ordersLast'.pre \in {"none", "cancelled", "completed"} )
       => orders' = orders /\ ordersOut' = <<>>]_vars

\* cancelOrder has been called on an open connection for a Completed order
\* while the other order is Pending.
C29_Witness ==
  /\ ordersLast.op = "cancelOrder"
  /\ ordersLast.pre = "completed"
  /\ ordersLast.nc = "connected"
  /\ StatusOf(ordersLast.data.orderId) = "completed"
  /\ \E o \in DOMAIN orders : orders[o].status = "pending"

\* C30: a publish that throws leaves the order as it was, and a status is
\* terminal only after a successful publish.  A PaymentFailed,
\* ShipmentDelivered or cancelOrder whose publish throws changes no order and
\* publishes nothing; a later one of them that finds the order Pending on an
\* open connection makes it terminal; and an order is Cancelled (Completed)
\* only if an order.cancelled (order.completed) has been published for it.
C30_StatusFollowsPublish ==
  [][ /\ ( /\ ordersThrew'
           /\ ordersLast'.op \in {"handlePaymentFailed", "handleShipmentDelivered",
                                  "cancelOrder"} )
           => orders' = orders /\ ordersOut' = <<>>
      /\ ( /\ ordersLast'.op \in {"handlePaymentFailed", "handleShipmentDelivered",
                                  "cancelOrder"}
           /\ ordersLast'.retry
           /\ ordersLast'.pre = "pending"
           /\ ordersLast'.nc = "connected" )
           => orders'[ordersLast'.data.orderId].status \in Terminal
      /\ \A o \in DOMAIN orders' :
           /\ orders'[o].status = "cancelled"
                => \E k \in 1..Len(terminalEvents'[o]) :
                     terminalEvents'[o][k] = "order.cancelled"
           /\ orders'[o].status = "completed"
                => \E k \in 1..Len(terminalEvents'[o]) :
                     terminalEvents'[o][k] = "order.completed" ]_vars

\* A cancelOrder threw on a closed connection and left the order Pending;
\* after a reconnect the ShipmentDelivered of that order completed it.
C30_Witness ==
  /\ ordersLast.op = "handleShipmentDelivered"
  /\ ordersLast.retry
  /\ ordersLast.pre = "pending"
  /\ ordersLast.nc = "connected"
  /\ StatusOf(ordersLast.data.orderId) = "completed"
  /\ terminalEvents[ordersLast.data.orderId] = <<"order.completed">>

\* C31: orders are independent.  A step changes, adds or removes the record of
\* an order only when it processes an event or a cancelOrder call that names
\* that order: the records of all other orders (status, userId, totalAmount,
\* items) stay as they were.
C31_OtherOrdersUnchanged ==
  [][\A b \in DOMAIN orders \cup DOMAIN orders' :
       ( \/ b \notin DOMAIN orders
         \/ b \notin DOMAIN orders'
         \/ orders'[b] # orders[b] )
       => /\ ordersLast'.op \notin {"none", "error"}
          /\ ordersLast'.data.orderId = b]_vars

\* A ShipmentDelivered has completed one order while the other order, which
\* has a record of its own, is Pending.
C31_Witness ==
  /\ ordersLast.op = "handleShipmentDelivered"
  /\ ordersLast.pre = "pending"
  /\ StatusOf(ordersLast.data.orderId) = "completed"
  /\ \E b \in DOMAIN orders :
       b # ordersLast.data.orderId /\ orders[b].status = "pending"

\* C32: order records are kept and only their status changes.  Every step
\* keeps every record, with the orderId, userId, totalAmount and items it
\* had: only the status field may differ, and the number of records does not
\* decrease.
C32_RecordsKept ==
  [][ /\ \A o \in DOMAIN orders :
           /\ o \in DOMAIN orders'
           /\ orders'[o] = [orders[o] EXCEPT !.status = orders'[o].status]
      /\ Cardinality(DOMAIN orders') >= Cardinality(DOMAIN orders) ]_vars

\* Both orders have records; one was cancelled, and an OrderCreated naming it
\* again, with another userId and other items, has been processed since.
C32_Witness ==
  /\ Cardinality(DOMAIN orders) = 2
  /\ ordersLast.op = "handleOrderCreated"
  /\ ordersLast.pre = "cancelled"
  /\ orders[ordersLast.data.orderId].status = "cancelled"
  /\ orders[ordersLast.data.orderId].userId # ordersLast.data.userId
  /\ orders[ordersLast.data.orderId].items # ordersLast.data.items

\* C33: an order is created Pending and its status is always one of Pending,
\* Cancelled and Completed.  After every step each record's status is one of
\* the three, and a record the step added is Pending.
C33_StatusValues ==
  [][\A o \in DOMAIN orders' :
       /\ orders'[o].status \in {"pending", "cancelled", "completed"}
       /\ o \notin DOMAIN orders => orders'[o].status = "pending"]_vars

\* An order has just been created Pending while the other order is Completed.
C33_Witness ==
  /\ ordersLast.op = "handleOrderCreated"
  /\ ordersLast.pre = "none"
  /\ StatusOf(ordersLast.data.orderId) = "pending"
  /\ \E b \in DOMAIN orders : orders[b].status = "completed"

\* C34: the status queries give a consistent snapshot.  In every state
\* getOrdersByStatus(s) holds exactly the records whose status is s, the
\* Pending, Cancelled and Completed results are pairwise disjoint and their
\* sizes add up to getOrderCount, and no state shows an order whose latest
\* terminal event is published while its status is not yet the one of that
\* event.
C34_QueriesConsistent ==
  /\ \A st \in {"pending", "cancelled", "completed"} :
       /\ \A o \in DOMAIN orders :
            orders[o].status = st <=> orders[o] \in getOrdersByStatus(st)
       /\ \A r \in getOrdersByStatus(st) :
            r.orderId \in DOMAIN orders /\ orders[r.orderId] = r
  /\ getOrdersByStatus("pending") \cap getOrdersByStatus("cancelled") = {}
  /\ getOrdersByStatus("pending") \cap getOrdersByStatus("completed") = {}
  /\ getOrdersByStatus("cancelled") \cap getOrdersByStatus("completed") = {}
  /\ Cardinality(getOrdersByStatus("pending"))
       + Cardinality(getOrdersByStatus("cancelled"))
       + Cardinality(getOrdersByStatus("completed")) = getOrderCount
  /\ \A o \in OrderIds :
       terminalEvents[o] # <<>> =>
         LET last == terminalEvents[o][Len(terminalEvents[o])] IN
         /\ last = "order.cancelled" => getOrder(o).status = "cancelled"
         /\ last = "order.completed" => getOrder(o).status = "completed"

\* One order is Pending and the other has just been cancelled by a
\* PaymentFailed whose order.cancelled is published.
C34_Witness ==
  /\ getOrderCount = 2
  /\ Cardinality(getOrdersByStatus("pending")) = 1
  /\ Cardinality(getOrdersByStatus("cancelled")) = 1
  /\ ordersLast.op = "handlePaymentFailed"
  /\ ordersLast.pre = "pending"
  /\ terminalEvents[ordersLast.data.orderId] = <<"order.cancelled">>
  /\ Len(ordersOut) = 1

\* C23: the completion time of a published order.completed is the
\* Coordinator's clock when the ShipmentDelivered is processed.  The step that
\* completes an order publishes one message, the encoding of an OrderCompleted
\* for that order whose completionTime is the clock reading of that step.
C23_CompletionTimeIsClock ==
  [][\A o \in DOMAIN orders :
       (orders[o].status # "completed" /\ orders'[o].status = "completed")
         => ordersOut' =
              <<[subject |-> "order.completed",
                 payload |-> jcEncode(OrderCompleted(
                               [orderId |-> o,
                                completionTime |-> ToISOString(clock)]))]>>]_vars

\* An order was completed at clock 1 by an event whose deliveryTime is the
\* instant 0: the published completion time is the instant 1.
C23_Witness ==
  /\ ordersLast.op = "handleShipmentDelivered"
  /\ ordersLast.pre = "pending"
  /\ ordersLast.data.deliveryTime = ToISOString(0)
  /\ StatusOf(ordersLast.data.orderId) = "completed"
  /\ Len(ordersOut) = 1
  /\ ordersOut[1].payload =
       jcEncode(OrderCompleted([orderId |-> ordersLast.data.orderId,
                                completionTime |-> ToISOString(1)]))

(***************************************************************************)
(* Properties of the Ledger (checked under SpecLedger)                     *)
(***************************************************************************)
\* The quantity the lines of `items` request of one item.
RECURSIVE QuantityOf(_, _)
QuantityOf(items, itemId) ==
  IF items = <<>> THEN 0
  ELSE (IF items[1].itemId = itemId THEN items[1].quantity ELSE 0)
       + QuantityOf(Tail(items), itemId)

\* The quantity of one item held by the active reservations.
RECURSIVE ReservedOf(_, _)
ReservedOf(res, itemId) ==
  IF res = <<>> THEN 0
  ELSE QuantityOf(res[1].items, itemId) + ReservedOf(Tail(res), itemId)

\* C2: conservation.  For every seeded item, available stock plus the
\* quantities held by the active reservations is the seeded quantity.
C2_Conservation ==
  \A i \in DOMAIN SeedStore :
    StockOf(inventoryStore, i) + ReservedOf(reservations, i) = SeedStore[i]

\* C3: no item's available quantity is below zero.
C3_NonNegativeStock ==
  \A i \in DOMAIN inventoryStore : inventoryStore[i] >= 0

\* C4: no two active reservations belong to the same order.
C4_OneReservationPerOrder ==
  \A j, k \in 1..Len(reservations) :
    reservations[j].orderId = reservations[k].orderId => j = k

\* C5: reservation atomicity.  A step of the order.created handler either
\* takes from every item the quantity the order's lines request of it and
\* stores the order's reservation, or leaves stock and reservations as they were.
C5_ReservationAtomicity ==
  [][inventoryLast'.op = "orderCreated" =>
       LET data == inventoryLast'.data IN
       \/ /\ \A i \in DOMAIN inventoryStore' \cup DOMAIN inventoryStore :
               StockOf(inventoryStore', i)
                 = StockOf(inventoryStore, i) - QuantityOf(data.items, i)
          /\ \E k \in 1..Len(reservations') :
               /\ reservations'[k].orderId = data.orderId
               /\ reservations'[k].items = data.items
               /\ reservations'[k].reservationId = ReservationId(clock)
       \/ /\ inventoryStore' = inventoryStore
          /\ reservations' = reservations]_vars

C5_Witness ==
  /\ inventoryLast.op = "orderCreated"
  /\ inventoryLast.ok
  /\ inventoryLast.data.items = <<Line("ITEM-004", 30), Line("ITEM-002", 30)>>
  /\ inventoryStore["ITEM-004"] < SeedStore["ITEM-004"]
  /\ inventoryStore["ITEM-002"] < SeedStore["ITEM-002"]

\* C12: release safety.  When the order.cancelled loop takes a message for an
\* order that has no active reservation, stock and reservations stay as they
\* were, nothing is published (no inventory.released) and the handler is
\* done, so no inventory.updated follows from it.
C12_ReleaseSafety ==
  [][( /\ inventoryLast'.op = "orderCancelled"
       /\ cancelledPc.at = "idle"
       /\ ~HasReservation(reservations, Prop(inventoryLast'.data, "orderId")) )
       => /\ inventoryStore' = inventoryStore
          /\ reservations' = reservations
          /\ inventoryOut' = <<>>
          /\ cancelledPc' = [at |-> "idle"]]_vars

\* An order.cancelled found no reservation right after a release had finished,
\* while another order's reservation holds stock.
C12_Witness ==
  /\ inventoryLast.op = "orderCancelled"
  /\ ~inventoryLast.ok
  /\ inventoryLast.after = "cancelledUpdate"
  /\ reservations # <<>>
  /\ \E i \in DOMAIN SeedStore : inventoryStore[i] < SeedStore[i]

\* C13: reserve/release round trip.  When the order.cancelled loop takes, on
\* an open connection (the publish does not throw), a message for an order
\* that has an active reservation, the step adds back to
\* every item the quantity that reservation holds of it, removes that
\* reservation and no other, and publishes one inventory.released with the
\* reservation's id, orderId and lines.  When the step before was the one that
\* made this reservation, stock is back at its value before the reservation.
C13_ReleaseRoundTrip ==
  [][( /\ inventoryLast'.op = "orderCancelled"
       /\ cancelledPc.at = "idle"
       /\ inventoryNc = "connected"
       /\ HasReservation(reservations, Prop(inventoryLast'.data, "orderId")) )
       => \E k \in 1..Len(reservations) :
            LET r == reservations[k] IN
            /\ r.orderId = Prop(inventoryLast'.data, "orderId")
            /\ \A i \in DOMAIN inventoryStore \cup DOMAIN inventoryStore' :
                 StockOf(inventoryStore', i)
                   = StockOf(inventoryStore, i) + QuantityOf(r.items, i)
            /\ Len(reservations') = Len(reservations) - 1
            /\ \A j \in 1..Len(reservations') :
                 reservations'[j].reservationId # r.reservationId
            /\ \A j \in 1..Len(reservations) :
                 j # k => \E n \in 1..Len(reservations') : reservations'[n] = reservations[j]
            /\ inventoryOut' =
                 <<[subject |-> "inventory.released",
                    payload |-> [reservationId |-> r.reservationId,
                                 orderId |-> r.orderId, items |-> r.items]]>>
            /\ ( /\ inventoryLast.op = "orderCreated"
                 /\ inventoryLast.ok
                 /\ inventoryLast.id = r.reservationId )
                 => inventoryStore' = inventoryLast.pre]_vars

\* A two-line reservation has been released by the step right after the one
\* that made it, while another reservation stays active.
C13_Witness ==
  /\ inventoryLast.op = "orderCancelled"
  /\ inventoryLast.ok
  /\ inventoryLast.roundTrip
  /\ Len(inventoryOut) = 1
  /\ inventoryOut[1].subject = "inventory.released"
  /\ Len(inventoryOut[1].payload.items) = 2
  /\ reservations # <<>>

\* Every line of `items` asks for no more than the item's available stock.
Covered(store, items) ==
  \A k \in 1..Len(items) : StockOf(store, items[k].itemId) >= items[k].quantity

\* C14: when the order.created loop takes, on an open connection (the
\* publish does not throw), a message whose every line is
\* covered by available stock, the step takes each line's quantity from its
\* item, stores under one reservationId a reservation with that orderId and
\* those lines, and publishes exactly one message, an inventory.reserved with
\* that reservationId, orderId and lines.
C14_ReserveOnSufficientStock ==
  [][( /\ inventoryLast'.op = "orderCreated"
       /\ createdPc.at = "idle"
       /\ inventoryNc = "connected"
       /\ Covered(inventoryStore, inventoryLast'.data.items) )
       => LET data == inventoryLast'.data
              id == ReservationId(clock) IN
          /\ \A i \in DOMAIN inventoryStore \cup DOMAIN inventoryStore' :
               StockOf(inventoryStore', i)
                 = StockOf(inventoryStore, i) - QuantityOf(data.items, i)
          /\ \E k \in 1..Len(reservations') :
               /\ reservations'[k] =
                    [reservationId |-> id, orderId |-> data.orderId, items |-> data.items]
               /\ \A j \in 1..Len(reservations') :
                    reservations'[j].reservationId = id => j = k
          /\ Len(reservations') <= Len(reservations) + 1
          /\ inventoryOut' =
               <<[subject |-> "inventory.reserved",
                  payload |-> [reservationId |-> id, orderId |-> data.orderId,
                               items |-> data.items]]>>]_vars

\* A covered two-line order has been reserved while another order already
\* held a reservation.
C14_Witness ==
  /\ inventoryLast.op = "orderCreated"
  /\ inventoryLast.ok
  /\ Len(inventoryLast.data.items) = 2
  /\ Len(inventoryOut) = 1
  /\ inventoryOut[1].subject = "inventory.reserved"
  /\ Len(reservations) = 2
  /\ reservations[2].orderId = inventoryLast.data.orderId
  /\ reservations[1].orderId # inventoryLast.data.orderId

C21_FreshReservationId ==
  [][( /\ inventoryLast'.op = "orderCreated"
       /\ createdPc.at = "idle"
       /\ createdPc'.at = "updates" )
       => /\ \A k \in 1..Len(reservations) :
               reservations[k].reservationId # inventoryLast'.id
          /\ Len(reservations') = Len(reservations) + 1
          /\ \A k \in 1..Len(reservations) : reservations'[k] = reservations[k]]_vars

\* C25: once the Ledger has processed both the order.created and the
\* order.cancelled of an order, in either order, the order holds no
\* reservation.  Stated for the two messages processed in consecutive steps:
\* after the later of them, no reservation of the order is active.
C25_CancelledAndCreatedLeaveNothing ==
  /\ ( /\ inventoryLast.op = "orderCreated"
       /\ inventoryLast.cancelledBefore )
       => ~HasReservation(reservations, inventoryLast.data.orderId)
  /\ ( /\ inventoryLast.op = "orderCancelled"
       /\ inventoryLast.roundTrip )
       => ~HasReservation(reservations, Prop(inventoryLast.data, "orderId"))

\* The inventory.updated events among `out` all carry the quantity that
\* `snap` holds for their item.
UpdatesCarry(out, snap) ==
  \A k \in 1..Len(out) :
    out[k].subject = "inventory.updated"
      => out[k].payload.newQuantity = StockOf(snap, out[k].payload.itemId)

\* C27: every inventory.updated published for a line of a reservation (of a
\* release) carries the item's stock as it was right after that reservation's
\* decrement (that release's increment), however the two handlers interleave.
C27_UpdatedCarriesOwnStock ==
  [][ /\ ( /\ createdPc.at = "updates"
           /\ createdPc' # createdPc
           /\ inventoryLast'.op = "createdUpdate" )
           => UpdatesCarry(inventoryOut', createdPc.snap)
      /\ ( /\ cancelledPc.at = "updates"
           /\ cancelledPc' # cancelledPc
           /\ inventoryLast'.op = "cancelledUpdate" )
           => UpdatesCarry(inventoryOut', cancelledPc.snap) ]_vars

\* C35: for every reservationId, inventory.released is published at most
\* once (and only after inventory.reserved with that id).  A step that
\* publishes inventory.released for an id finds no inventory.released with
\* that id published before it.
C35_ReleasedOnceAfterReserved ==
  [][\A k \in 1..Len(inventoryOut') :
       ( /\ inventoryOut'[k].subject = "inventory.released"
         /\ inventoryLast'.op = "orderCancelled"
         /\ cancelledPc.at = "idle"
         /\ reservations' # reservations )
       => inventoryOut'[k].payload.reservationId \notin ledgerLog]_vars

\* Some line of `items` asks for at least one unit of an item that is not in
\* the seeded catalog.
NamesUnknownItem(items) ==
  \E k \in 1..Len(items) :
    items[k].itemId \notin DOMAIN SeedStore /\ items[k].quantity >= 1

\* C36: the stock table keeps the itemIds of the seeded catalog.  After every
\* step its keys are the catalog's, and when the order.created loop takes a
\* message with a line for an item outside the catalog, the whole order is
\* turned down: stock and reservations stay as they were and nothing is
\* published.
C36_CatalogKeysOnly ==
  [][ /\ DOMAIN inventoryStore' = DOMAIN SeedStore
      /\ ( /\ inventoryLast'.op = "orderCreated"
           /\ createdPc.at = "idle"
           /\ NamesUnknownItem(inventoryLast'.data.items) )
           => /\ inventoryStore' = inventoryStore
              /\ reservations' = reservations
              /\ inventoryOut' = <<>>
              /\ createdPc' = [at |-> "idle"] ]_vars

\* An order with a line the stock covers and a line for an item outside the
\* catalog has been turned down on an open connection; the covered item's stock is whole.
C36_Witness ==
  /\ inventoryLast.op = "orderCreated"
  /\ ~inventoryLast.ok
  /\ inventoryLast.nc = "connected"
  /\ inventoryLast.data.items = <<Line("ITEM-002", 30), Line("ITEM-005", 1)>>
  /\ inventoryStore["ITEM-002"] = SeedStore["ITEM-002"]
  /\ reservations = <<>>

\* The step changed stock for a handler whose publish of inventory.reserved
\* or inventory.released then threw.
ChangedThenThrew ==
  /\ inventoryStore' # inventoryStore
  /\ inventoryThrew'
  /\ inventoryLast'.op \in {"orderCreated", "orderCancelled"}

\* The changes of such a step are the ones of a reservation or of a release.
MutationKept ==
  LET data == inventoryLast'.data IN
  IF inventoryLast'.op = "orderCreated"
  THEN /\ \A i \in DOMAIN inventoryStore \cup DOMAIN inventoryStore' :
            StockOf(inventoryStore', i)
              = StockOf(inventoryStore, i) - QuantityOf(data.items, i)
       /\ \E k \in 1..Len(reservations') :
            reservations'[k] = [reservationId |-> ReservationId(clock),
                                orderId |-> data.orderId, items |-> data.items]
  ELSE \E k \in 1..Len(reservations) :
         /\ reservations[k].orderId = Prop(data, "orderId")
         /\ \A i \in DOMAIN inventoryStore \cup DOMAIN inventoryStore' :
              StockOf(inventoryStore', i)
                = StockOf(inventoryStore, i) + QuantityOf(reservations[k].items, i)
         /\ \A j \in 1..Len(reservations') :
              reservations'[j].reservationId # reservations[k].reservationId

\* C24: no rollback when a publish fails.  When the publish of
\* inventory.reserved or inventory.released throws after the handler changed
\* stock and the reservation table, the changes stay as made, and if stock
\* plus reservations matched the seeded quantities before the step they match
\* after it.
C24_KeptAndConserved ==
  [][ChangedThenThrew =>
        /\ MutationKept
        /\ C2_Conservation =>
             \A i \in DOMAIN SeedStore :
               StockOf(inventoryStore', i) + ReservedOf(reservations', i) = SeedStore[i]]_vars

(***************************************************************************)
(* Properties of the combined deployment (checked under SpecCombined)      *)
(***************************************************************************)
\* C15: when the Ledger's order.created loop takes a well-formed message with a line that
\* asks for more than the item's available stock, stock and reservations stay
\* as they were, nothing is published (no inventory.reserved), the handler is
\* done (no inventory.updated follows), the message is not queued again, and
\* the Coordinator's orders are as they were: a Pending order stays Pending.
C15_RejectOnInsufficientStock ==
  [][( /\ bus.inventoryCreated # <<>>
       /\ bus'.inventoryCreated = Tail(bus.inventoryCreated)
       /\ ~Throws("inventoryCreated", Head(bus.inventoryCreated))
       /\ ~Covered(inventoryStore, Head(bus.inventoryCreated).items) )
       => /\ inventoryStore' = inventoryStore
          /\ reservations' = reservations
          /\ inventoryOut' = <<>>
          /\ createdPc' = [at |-> "idle"]
          /\ bus' = [bus EXCEPT !.inventoryCreated = Tail(@)]
          /\ orders' = orders
          /\ ordersOut' = ordersOut]_vars

\* The Ledger has turned down the order.created of an order that another
\* order's reservation left too little stock for; the order is Pending in the
\* Coordinator and no message is waiting anywhere.
C15_Witness ==
  /\ inventoryLast.op = "orderCreated"
  /\ ~inventoryLast.ok
  /\ StatusOf(inventoryLast.data.orderId) = "pending"
  /\ ~HasReservation(reservations, inventoryLast.data.orderId)
  /\ reservations # <<>>
  /\ inventoryOut = <<>>
  /\ \A q \in DOMAIN bus : bus[q] = <<>>

\* The order.cancelled payloads the Coordinator publishes for the order when a
\* payment of it fails.
PaymentFailureCancellations(o) ==
  {jcEncode(OrderCancelled([orderId |-> o, reason |-> "Payment failed: " \o f])) :
     f \in FailureReasons}

\* C17: compensation after a failed payment.  When a PaymentFailed cancelled a
\* Pending order that held a reservation, then once the Ledger has processed
\* the order.cancelled the Coordinator published for it, the order holds no
\* reservation.  (The handler releases
\* in the step that takes the message or not at all, so this is the eventual
\* release of the claim, stated at the point where it must have happened.)
C17_ReleasedAfterPaymentFailure ==
  \A o \in OrderIds :
    ( /\ o \in cancelledHolding
      /\ inventoryLast.op = "orderCancelled"
      /\ inventoryLast.data \in PaymentFailureCancellations(o) )
    => ~HasReservation(reservations, o)

\* C22: a message whose decoding or handling throws is dropped and the loop
\* goes on.  When a subscription loop of the Coordinator or of the Ledger takes
\* such a message, the service's state stays as it was, nothing is published
\* and the loop is still running; and no step ends a running loop, so every
\* later message of the subject is still taken by it.
C22_ErrorsDoNotEndLoops ==
  [][ /\ \A l \in DOMAIN bus :
           ( /\ bus[l] # <<>>
             /\ bus'[l] = Tail(bus[l])
             /\ Throws(l, Head(bus[l])) )
           => /\ loops'[l] = "running"
              /\ l \in CoordinatorLoops => orders' = orders /\ ordersOut' = <<>>
              /\ l \in LedgerLoops =>
                   /\ inventoryStore' = inventoryStore
                   /\ reservations' = reservations
                   /\ inventoryOut' = <<>>
                   /\ createdPc' = createdPc
                   /\ cancelledPc' = cancelledPc
      /\ \A l \in DOMAIN loops : loops[l] = "running" => loops'[l] = "running" ]_vars

\* In both services a loop has processed a message right after it had dropped
\* one: the Coordinator created an order, the Ledger stored a reservation.
C22_Witness ==
  /\ ordersLast.op = "handleOrderCreated"
  /\ ordersLast.afterError
  /\ ordersLast.pre = "none"
  /\ StatusOf(ordersLast.data.orderId) = "pending"
  /\ inventoryLast.op = "orderCreated"
  /\ inventoryLast.afterError
  /\ inventoryLast.ok
  /\ HasReservation(reservations, inventoryLast.data.orderId)

\* Queue q2 is q1 with messages added at its end.
Extends(q1, q2) == Len(q2) >= Len(q1) /\ SubSeq(q2, 1, Len(q1)) = q1

\* C26: each subscription processes its messages one at a time and in
\* delivery order.  A step changes a subscription's queue only by adding
\* messages at its end or by taking its head, and a Ledger loop takes a head
\* only when the handler of its previous message has finished (the
\* Coordinator's handlers finish within the step that takes the message).
C26_OneAtATimeInOrder ==
  [][ /\ \A l \in DOMAIN bus :
           \/ Extends(bus[l], bus'[l])
           \/ bus[l] # <<>> /\ bus'[l] = Tail(bus[l])
      /\ ( /\ bus.inventoryCreated # <<>>
           /\ bus'.inventoryCreated = Tail(bus.inventoryCreated) )
           => createdPc.at = "idle"
      /\ ( /\ bus.inventoryCancelled # <<>>
           /\ bus'.inventoryCancelled = Tail(bus.inventoryCancelled) )
           => cancelledPc.at = "idle" ]_vars

\* An order.created waits in its queue while the handler of the previous one
\* is at an await, interleaved with the order.cancelled handler at an await
\* of its own.
C26_Witness ==
  /\ createdPc.at = "updates"
  /\ cancelledPc.at = "updates"
  /\ bus.inventoryCreated # <<>>

(***************************************************************************)
(* Properties of shutdown (checked under SpecShutdown)                     *)
(***************************************************************************)
\* The queue of a subscription stays as it is or loses its first message.
Shrinks(q) ==
  \/ bus'[q] = bus[q]
  \/ bus[q] # <<>> /\ bus'[q] = Tail(bus[q])

\* C37: shutdown.  Once disconnect() has closed a service's connection, no
\* message published afterwards reaches its subscriptions: the queues of the
\* service only shrink, and the service's orders, stock and reservations
\* change only in a step that takes a message received before the
\* disconnect.  A reserve or a release is never left half-way, whatever the
\* state of the connection: a step that changes stock or the reservation
\* table makes both changes of one reservation or of one release.
C37_ShutdownKeepsState ==
  [][ /\ ordersNc = "closed"
         => /\ \A q \in CoordinatorLoops \cap DOMAIN bus : Shrinks(q)
            /\ orders' # orders
                 => \E q \in CoordinatorLoops \cap DOMAIN bus : bus'[q] # bus[q]
      /\ inventoryNc = "closed"
         => /\ \A q \in LedgerLoops \cap DOMAIN bus : Shrinks(q)
            /\ (inventoryStore' # inventoryStore \/ reservations' # reservations)
                 => \E q \in LedgerLoops \cap DOMAIN bus : bus'[q] # bus[q]
      /\ (inventoryStore' # inventoryStore \/ reservations' # reservations)
         => /\ inventoryLast'.op \in {"orderCreated", "orderCancelled"}
            /\ inventoryStore' # inventoryStore
            /\ MutationKept ]_vars

\* The Ledger disconnected while its order.created handler was at an await
\* after a reservation; an order.created published after the disconnect
\* reached the Coordinator's subscription and not the Ledger's.
C37_Witness ==
  /\ inventoryNc = "closed"
  /\ createdPc.at # "idle"
  /\ inventoryLast.op = "orderCreated"
  /\ inventoryLast.ok
  /\ HasReservation(reservations, inventoryLast.data.orderId)
  /\ ordersLast.op = "none"
  /\ Len(bus.ordersCreated) = 2
  /\ bus.ordersCreated[1] = inventoryLast.data
  /\ bus.ordersCreated[2] # bus.ordersCreated[1]
  /\ bus.inventoryCreated = <<>>

(***************************************************************************)
(* Properties of the fraud detection service (checked under SpecFraud)     *)
(***************************************************************************)
\* C38: on an open connection, the handler of a transaction.evaluated message
\* publishes exactly one fraud.alert when isFraudulent is true or riskScore is
\* above 0.7, and nothing otherwise; the alert carries the message's
\* transactionId and its severity is CRITICAL above 0.9, HIGH above 0.7 up to
\* 0.9, and MEDIUM otherwise.
C38_AlertIffFlagged ==
  (fraudLast.op = "transactionEvaluated" /\ fraudLast.data # NotJson
     /\ fraudLast.nc = "connected")
    => LET data == fraudLast.data IN
       IF data.isFraudulent \/ data.riskScore > 70
       THEN /\ Len(fraudOut) = 1
            /\ fraudOut[1].subject = "fraud.alert"
            /\ fraudOut[1].payload.transactionId = data.transactionId
            /\ fraudOut[1].payload.severity =
                 (IF data.riskScore > 90 THEN "CRITICAL"
                  ELSE IF data.riskScore > 70 /\ data.riskScore <= 90 THEN "HIGH"
                  ELSE "MEDIUM")
       ELSE fraudOut = <<>>

\* A transaction with risk score 0.71 that is not flagged fraudulent was
\* evaluated and its HIGH alert is published.
C38_Witness ==
  /\ fraudLast.op = "transactionEvaluated"
  /\ fraudLast.data # NotJson
  /\ fraudLast.nc = "connected"
  /\ ~fraudLast.data.isFraudulent
  /\ fraudLast.data.riskScore = 71
  /\ Len(fraudOut) = 1
  /\ fraudOut[1].payload.severity = "HIGH"

(***************************************************************************)
(* Properties of the user simulator (checked under SpecSimulator)          *)
(***************************************************************************)
\* The events that end an order.
SimTerminal == {SIM_CHANNELS.ORDER_CANCELLED, SIM_CHANNELS.SHIPMENT_DELIVERED}

\* The positions in the simulator's log of the terminal events of the order.
SimTerminalsOf(o) ==
  {k \in 1..Len(simLog) : simLog[k].orderId = o /\ simLog[k].subject \in SimTerminal}

\* C39: for every order of the simulator, order.created is published before
\* order.cancelled or shipment.delivered, and at most one of these two is
\* published, once; a flow that returned has published exactly one of them
\* and its order has left activeOrders; simulateOrderCancellation publishes
\* order.cancelled only for an order that was in activeOrders, never for one
\* whose shipment.delivered was published.
C39_OneEndPerOrder ==
  /\ \A k \in 1..Len(simLog) :
       simLog[k].subject \in SimTerminal
         => /\ \E j \in 1..(k - 1) :
                 /\ simLog[j].subject = SIM_CHANNELS.ORDER_CREATED
                 /\ simLog[j].orderId = simLog[k].orderId
            /\ SimTerminalsOf(simLog[k].orderId) = {k}
            /\ simLog[k].by = "simulateOrderCancellation" => simLog[k].active
  /\ \A o \in simReturned :
       /\ o \notin DOMAIN activeOrders
       /\ Cardinality(SimTerminalsOf(o)) = 1

\* One flow ended with shipment.delivered, the next with order.cancelled
\* after a failed payment, and simulateOrderCancellation has run since.
C39_Witness ==
  /\ Cardinality(simReturned) = 2
  /\ \E k \in 1..Len(simLog) : simLog[k].subject = SIM_CHANNELS.SHIPMENT_DELIVERED
  /\ \E k \in 1..Len(simLog) : simLog[k].subject = SIM_CHANNELS.ORDER_CANCELLED
  /\ simPc = [at |-> "wait", after |-> "simulateOrderCancellation"]
  /\ simNc = "connected"

====
